---- MODULE Spec2Model ----
(***************************************************************************)
(* The application / payment lifecycle of the OppAttach backend.           *)
(*                                                                         *)
(* Two versions of routes/applications.js are modelled over one document   *)
(* store.  The Paystack flow (create, /:id/pay, /:id/charge-mpesa, the     *)
(* Paystack webhook, the administrator status edit, the cover-letter edit  *)
(* and withdraw) is modelled twice: with requests served one at a time     *)
(* (Spec), every action a whole handler run, and with requests overlapping *)
(* (SpecConc), every handler cut at the await of its store write or        *)
(* provider call, the frames of the suspended handlers in the bag          *)
(* inflight.  SpecWebhook runs the webhook handler alone on stores of up   *)
(* to two applications.  The direct M-Pesa flow (create, /:id/pay,         *)
(* /mpesa-callback) is SpecMpesa, its access token cache (utils/mpesa.js)  *)
(* under overlapping calls SpecToken.                                      *)
(*                                                                         *)
(* Strings the code parses or builds (references, ids) are sequences of    *)
(* one-character strings.  An optional value is the empty set (undefined / *)
(* null) or a singleton.                                                   *)
(***************************************************************************)
EXTENDS Integers, Sequences, FiniteSets, Bags, TLC

VARIABLES
    apps,       \* the Application collection: _id -> document
    nextId,     \* index of the next _id the store hands out
    inflight,   \* bag of the frames of suspended handlers
    now,        \* Date.now()
    initiated,  \* bag of the charge requests the provider has received
    nextCheckout, \* number of CheckoutRequestIDs Daraja has issued
    res,        \* what the request under observation has sent and done, in order
    cachedToken, \* utils/mpesa.js: the access token kept, null at first
    tokenExpiry  \* utils/mpesa.js: the time up to which it is used

vars == <<apps, nextId, inflight, now, initiated, nextCheckout, res,
          cachedToken, tokenExpiry>>

----------------------------------------------------------------------------
(* Bounds *)

MaxClock == 1
MaxInit == 2
MaxCheckout == 2

----------------------------------------------------------------------------
(* Values *)

None == {}
Some(v) == {v}
TheValue(o) == CHOOSE v \in o : TRUE

\* _ids the store hands out, in order; a further id no document has
IdOrder == << <<"a">>, <<"7">> >>
AppIds == {IdOrder[i] : i \in 1..Len(IdOrder)}
UnknownId == <<"z">>

Users == {"u1"}
Opps == {"o1"}
ResumeFiles == {"cv1", "cv2"}
RecFiles == {"rl1"}
CoverLetters == {<<"c", "1">>}

\* the opportunities with an explicit applicationFee, and the fee
OppFee == ("f0" :> 0) @@ ("f1" :> 1) @@ ("f200" :> 200) @@ ("f350" :> 350)
FeeOpps == DOMAIN OppFee

\* Opportunity.findById(o): o1 is an internship and o2 an attachment, both
\* without an explicit fee; o3 is closed; the others carry a fee
Opportunity(o) ==
    [type |-> IF o = "o2" THEN "attachment" ELSE "internship",
     applicationFee |-> IF o \in FeeOpps THEN Some(OppFee[o]) ELSE None,
     isActive |-> o # "o3"]

PAYSTACK_SECRET_KEY == "sk_live"

DigitChars == <<"0", "1", "2", "3", "4", "5", "6", "7", "8", "9">>
IsDigit(c) == \E i \in 1..Len(DigitChars) : DigitChars[i] = c

RECURSIVE ToDigits(_)
\* String(n) for a non-negative integer
ToDigits(n) == IF n < 10 THEN <<DigitChars[n + 1]>>
               ELSE ToDigits(n \div 10) \o <<DigitChars[(n % 10) + 1]>>

APP == <<"A", "P", "P", "-">>

StartsWith(s, p) == Len(s) >= Len(p) /\ SubSeq(s, 1, Len(p)) = p

\* s.replace(/^APP-/, '')
StripPrefix(s) == IF StartsWith(s, APP) THEN SubSeq(s, Len(APP) + 1, Len(s)) ELSE s

\* s.replace(/-\d+$/, '')
StripTrailingDigits(s) ==
    LET P == {p \in 1..Len(s) : /\ s[p] = "-"
                                /\ p < Len(s)
                                /\ \A q \in (p + 1)..Len(s) : IsDigit(s[q])}
    IN IF P = {} THEN s
       ELSE SubSeq(s, 1, (CHOOSE p \in P : \A q \in P : p <= q) - 1)

\* a recovery that drops every trailing digit, with or without a dash
\* before them
RecoverIdDropsDigits(reference) ==
    LET s == StripPrefix(reference)
        K == {k \in 0..Len(s) : \A q \in (k + 1)..Len(s) : IsDigit(s[q])}
        k == CHOOSE m \in K : \A n \in K : m <= n
    IN IF k > 0 /\ s[k] = "-" THEN SubSeq(s, 1, k - 1) ELSE SubSeq(s, 1, k)

\* RecoverId with the disambiguator left in place
RecoverIdKeepsSuffix(reference) == StripPrefix(reference)

\* the application id the webhook recovers from a reference
RecoverId(reference) == StripTrailingDigits(StripPrefix(reference))

\* `APP-${application._id}-${Date.now()}`
BuildReference(id, t) == APP \o id \o <<"-">> \o ToDigits(t)

\* `APP-${application._id}`
BareReference(id) == APP \o id

----------------------------------------------------------------------------
(* The document store (Mongoose over MongoDB) *)

Statuses == {"pending_payment", "submitted", "under_review",
             "shortlisted", "rejected", "accepted"}

\* Application.create(fields): a new document; the fields not given are unset
NewDoc(userId, opportunityId, resumeUrl, recommendationLetterUrl, coverLetter) ==
    [userId |-> userId,
     opportunityId |-> opportunityId,
     resumeUrl |-> resumeUrl,
     recommendationLetterUrl |-> recommendationLetterUrl,
     coverLetter |-> coverLetter,
     status |-> "pending_payment",
     paymentTransactionId |-> None,
     amountPaid |-> None,
     mpesaCheckoutRequestId |-> None,
     mpesaTransactionId |-> None]

\* Application.findById(id): the document, or null
FindById(store, id) == IF id \in DOMAIN store THEN Some(store[id]) ELSE None

\* a lookup by _id alone, whoever the owner is
FindOwnedByAnyone(store, u, id) == {i \in DOMAIN store : i = id}

\* Application.findOne({ _id, userId }): the _ids of the matches
FindOwned(store, u, id) == {i \in DOMAIN store : i = id /\ store[i].userId = u}

\* Application.findOne({ _id, userId, status: 'pending_payment' })
FindPending(store, u, id) ==
    {i \in FindOwned(store, u, id) : store[i].status = "pending_payment"}

\* document.save(): writes the modified paths of the document, by _id;
\* nothing is written when the document is no longer in the collection
ApplySave(store, id, mods) ==
    IF id \in DOMAIN store
    THEN [store EXCEPT ![id] =
            [k \in DOMAIN @ |-> IF k \in DOMAIN mods THEN mods[k] ELSE @[k]]]
    ELSE store

\* the store accepts every insert: the collection has no uniqueness
\* constraint on (userId, opportunityId)
StoreCreate(store, id, doc) == (id :> doc) @@ store

\* Application.findByIdAndDelete(id)
StoreDelete(store, id) == [i \in DOMAIN store \ {id} |-> store[i]]

\* an update that replaces the document by one with the new status and
\* no payment fields
FindByIdAndReplace(store, id, status) ==
    IF id \in DOMAIN store
    THEN [store EXCEPT ![id].status = status,
                       ![id].paymentTransactionId = None,
                       ![id].amountPaid = None]
    ELSE store

\* Application.findByIdAndUpdate(id, { status }): one atomic update
FindByIdAndUpdate(store, id, status) ==
    IF id \in DOMAIN store
    THEN [store EXCEPT ![id].status = status]
    ELSE store

NoMods == <<>>

\* document.set(path, value) marks a path modified only when the value differs
Changed(doc, mods) ==
    LET K == {k \in DOMAIN mods : doc[k] # mods[k]} IN [k \in K |-> mods[k]]

\* frames of suspended handlers: the store or provider operation awaited
\* (op), the handler (by), the document (id), the paths to write or the
\* fields of the document to insert (mods), what follows a write (next)
\* and the arguments of the provider call (arg)
SaveFrame(by, id, mods, next, arg) ==
    [op |-> "save", by |-> by, id |-> id, mods |-> mods, next |-> next, arg |-> arg]
CreateFrame(by, doc, next, arg) ==
    [op |-> "create", by |-> by, id |-> <<>>, mods |-> doc, next |-> next, arg |-> arg]
InitFrame(by, id, arg) ==
    [op |-> "init", by |-> by, id |-> id, mods |-> NoMods, next |-> "done", arg |-> arg]
DeleteFrame(by, id) ==
    [op |-> "delete", by |-> by, id |-> id, mods |-> NoMods, next |-> "done", arg |-> <<>>]

Frames == BagToSet(inflight)
\* the requests in flight at one time
Handlers == {"h1", "h2"}
CanSuspend == BagCardinality(inflight) < Cardinality(Handlers)
Suspend(f) == inflight' = inflight (+) SetToBag({f})
Resume(f) == inflight (-) SetToBag({f})

----------------------------------------------------------------------------
(* utils/paystack.js *)

\* crypto.createHmac('sha512', secret).update(payload).digest('hex')
createHmac(secret, payload) == <<"sha512", secret, payload>>

\* verifyWebhookSignature(payload, signature)
verifyWebhookSignature(payload, signature) ==
    IF PAYSTACK_SECRET_KEY = "" THEN TRUE
    ELSE createHmac(PAYSTACK_SECRET_KEY, payload) = signature

\* Math.round(Number(amount) * 100), amount a whole number of units
AmountInSmallest(amount) == amount * 100

----------------------------------------------------------------------------
(* Paystack webhook deliveries *)

Events == {"charge.success", "charge.failed"}

\* references a delivery may carry: none, foreign ones, and for every id
\* the bare and the timestamped form
References ==
    {<<>>, <<"X", "-", "a">>, APP \o <<"a", "-">>, APP \o <<"a", "-", "1", "-", "0">>}
    \cup {BareReference(id) : id \in AppIds \cup {UnknownId}}
    \cup {BuildReference(id, t) : id \in AppIds, t \in 0..MaxClock}

\* the body of a delivery: whether it parses, and its fields
Delivery(wellFormed, event, hasData, reference, id, amount) ==
    [wellFormed |-> wellFormed, event |-> event, hasData |-> hasData,
     reference |-> reference, id |-> id, amount |-> amount]

\* the deliveries tried: every charge.success body over the references,
\* with and without transaction id and amount; another event kind for every
\* reference; a body that does not parse; a body without data
Deliveries ==
    {Delivery(TRUE, "charge.success", TRUE, r, i, a) :
        r \in References, i \in {None, Some(77)}, a \in {None, Some(35000)}}
    \cup {Delivery(TRUE, "charge.failed", TRUE, r, Some(77), Some(35000)) :
            r \in References}
    \cup {Delivery(FALSE, "charge.success", TRUE, BareReference(IdOrder[1]),
                   Some(77), Some(35000)),
          Delivery(TRUE, "charge.success", FALSE, <<>>, None, None)}

\* the raw bytes of a delivery
Body(d) == <<d.wellFormed, d.event, d.hasData, d.reference, d.id, d.amount>>

\* the x-paystack-signature headers a delivery may come with: the keyed
\* hash of its body under the secret key, and one made with another key
SignatureHeaders(d) ==
    {createHmac(PAYSTACK_SECRET_KEY, Body(d)), createHmac("sk_other", Body(d))}

\* the amount stored as it came, in the smallest unit
AmountPaidUndivided(amount) == [units |-> amount, hundredths |-> 0]

\* Number(amount) / 100, kept exact as units and hundredths
AmountPaid(amount) == [units |-> amount \div 100, hundredths |-> amount % 100]

\* the checks before the lookup without the one of the event kind
WebhookAcceptsAnyEvent(d) ==
    /\ d.wellFormed /\ d.hasData
    /\ d.reference # <<>> /\ StartsWith(d.reference, APP)

\* the checks of the handler before the lookup
WebhookAccepts(d) ==
    /\ d.wellFormed
    /\ d.event = "charge.success" /\ d.hasData
    /\ d.reference # <<>> /\ StartsWith(d.reference, APP)

\* WebhookGuard without the status check
WebhookGuardExistsOnly(found) == found # None

\* if (!application || application.status !== 'pending_payment') return
WebhookGuard(found) ==
    found # None /\ TheValue(found).status = "pending_payment"

\* the handler's assignments without the one of paymentTransactionId
WebhookModsNoTransaction(d) ==
    ("status" :> "submitted")
    @@ (IF d.amount # None
        THEN ("amountPaid" :> Some(AmountPaid(TheValue(d.amount))))
        ELSE NoMods)

\* the paths the handler sets on the document
WebhookMods(d) ==
    ("status" :> "submitted")
    @@ ("paymentTransactionId" :>
            Some(IF d.id # None THEN ToDigits(TheValue(d.id)) ELSE d.reference))
    @@ (IF d.amount # None
        THEN ("amountPaid" :> Some(AmountPaid(TheValue(d.amount))))
        ELSE NoMods)

\* the handler up to application.save(): the frame it suspends with, if any
paystackWebhookPlan(store, d) ==
    IF ~WebhookAccepts(d) THEN {}
    ELSE LET id == RecoverId(d.reference) IN
         IF WebhookGuard(FindById(store, id))
         THEN {SaveFrame("webhook", id,
                         Changed(TheValue(FindById(store, id)), WebhookMods(d)),
                         "done", <<>>)}
         ELSE {}

\* the handler run without interruption on a store
paystackWebhookHandler(store, d) ==
    LET plan == paystackWebhookPlan(store, d) IN
    IF plan = {} THEN store
    ELSE LET f == TheValue(plan) IN ApplySave(store, f.id, f.mods)

----------------------------------------------------------------------------
(* chargeMpesa: phone normalisation *)

\* .replace(/\s/g, '')
RemoveSpaces(s) == SelectSeq(s, LAMBDA c : c # " ")

\* .replace(/^\+/, '')
StripPlus(s) == IF Len(s) > 0 /\ s[1] = "+" THEN Tail(s) ELSE s

K254 == <<"2", "5", "4">>

\* a normalisation without the replacement of the leading 0
NormalizePhoneKeepsZero(phone) ==
    LET n == StripPlus(RemoveSpaces(phone)) IN
    IF ~StartsWith(n, K254) THEN K254 \o n ELSE n

NormalizePhone(phone) ==
    LET n == StripPlus(RemoveSpaces(phone)) IN
    IF StartsWith(n, <<"0">>) THEN K254 \o Tail(n)
    ELSE IF ~StartsWith(n, K254) THEN K254 \o n
    ELSE n

\* if (normalized.length < 12) throw new Error('Invalid phone number')
PhoneAccepted(phone) == Len(NormalizePhone(phone)) >= 12

PhoneFormatted(phone) == <<"+">> \o NormalizePhone(phone)

Phones == {<<>>,
           <<"0", "7", "1", "2", "3", "4", "5", "6", "7", "8">>,
           <<"0", "7", "1", "2">>}

----------------------------------------------------------------------------
(* Paystack flow: payment initiation *)

DefaultFee == 350

\* opportunity?.applicationFee ?? 350
Fee(o) == IF Opportunity(o).applicationFee # None
          THEN TheValue(Opportunity(o).applicationFee)
          ELSE DefaultFee

\* the reference of an attempt started at time t
AttemptReference(id, t) == BuildReference(id, t)

\* the charge request the provider receives from initializeTransaction /
\* chargeMpesa
Charge(f, t) ==
    [id |-> f.id,
     reference |-> AttemptReference(f.id, t),
     amount |-> AmountInSmallest(Fee(f.arg.opp))]

\* chargeMpesa throws before the request when the phone is not accepted
Reaches(f) == f.by # "charge" \/ PhoneAccepted(f.arg.phone)

\* the provider's log after the call of frame f at time t; ok: the call
\* went through
Provider(log, f, t, ok) ==
    IF ok /\ Reaches(f) THEN log (+) SetToBag({Charge(f, t)}) ELSE log

CanInitiate == BagCardinality(initiated) < MaxInit

----------------------------------------------------------------------------
(* Paystack flow: the handlers up to their store write or provider call *)

\* uploadToCloudinary(buffer, folder): the URL of the stored blob
uploadToCloudinary(file, folder) == <<folder, file>>

\* Application.findOne({ userId, opportunityId }): one of the matches, or null
FindExisting(store, u, o) ==
    LET M == {id \in DOMAIN store :
                 store[id].userId = u /\ store[id].opportunityId = o}
    IN IF M = {} THEN {None} ELSE {Some(id) : id \in M}

\* Opportunity.findById returns null for an unknown id
UnknownOpp == "o9"
OpportunityFound(o) == o # UnknownOpp

\* POST /: the checks without the one on the recommendation letter
CreateRejectionNoLetter(store, o, resume, rec, existing) ==
    IF ~OpportunityFound(o) THEN <<"404", "Opportunity not found">>
    ELSE IF ~Opportunity(o).isActive THEN <<"400", "Opportunity is closed">>
    ELSE IF existing # None /\ store[TheValue(existing)].status # "pending_payment"
         THEN <<"400", "You have already applied">>
    ELSE IF resume = None THEN <<"400", "Resume is required">>
    ELSE <<>>

\* POST /: the checks without the one on an earlier application
CreateRejectionNoExisting(store, o, resume, rec, existing) ==
    IF ~OpportunityFound(o) THEN <<"404", "Opportunity not found">>
    ELSE IF ~Opportunity(o).isActive THEN <<"400", "Opportunity is closed">>
    ELSE IF resume = None THEN <<"400", "Resume is required">>
    ELSE IF Opportunity(o).type = "attachment" /\ rec = None
         THEN <<"400", "Recommendation letter is required for attachments">>
    ELSE <<>>

\* POST /: the response of the check that turns the request down, <<>> when
\* it passes them all; the checks are the same in both versions of the route
CreateRejection(store, o, resume, rec, existing) ==
    IF ~OpportunityFound(o) THEN <<"404", "Opportunity not found">>
    ELSE IF ~Opportunity(o).isActive THEN <<"400", "Opportunity is closed">>
    ELSE IF existing # None /\ store[TheValue(existing)].status # "pending_payment"
         THEN <<"400", "You have already applied">>
    ELSE IF resume = None THEN <<"400", "Resume is required">>
    ELSE IF Opportunity(o).type = "attachment" /\ rec = None
         THEN <<"400", "Recommendation letter is required for attachments">>
    ELSE <<>>

\* POST /: the validations and the uploads, given the result of the lookup
CreatePlan(store, u, o, resume, rec, cover, existing) ==
    IF CreateRejection(store, o, resume, rec, existing) # <<>> THEN {}
    ELSE
      LET resumeUrl == uploadToCloudinary(TheValue(resume), "resumes")
          recUrl == IF rec # None
                    THEN Some(uploadToCloudinary(TheValue(rec), "recommendations"))
                    ELSE None
          arg == [opp |-> o, phone |-> <<>>]
      IN IF existing # None
         THEN LET doc == store[TheValue(existing)]
                  mods == ("resumeUrl" :> resumeUrl)
                          @@ ("recommendationLetterUrl" :>
                                IF rec # None THEN recUrl ELSE doc.recommendationLetterUrl)
                          @@ ("coverLetter" :>
                                IF cover # None THEN cover ELSE doc.coverLetter)
              IN {SaveFrame("create", TheValue(existing), Changed(doc, mods), "init", arg)}
         ELSE {CreateFrame("create", NewDoc(u, o, resumeUrl, recUrl, cover), "init", arg)}

\* POST /:id/pay and POST /:id/charge-mpesa: the response of the check
\* that turns the request down, <<>> when it passes them
PayRejection(store, by, u, id, phone) ==
    IF by = "charge" /\ phone = <<>> THEN <<"400", "Phone number is required">>
    ELSE IF FindPending(store, u, id) = {} THEN <<"404", "Application not found">>
    ELSE <<>>

\* POST /:id/pay and POST /:id/charge-mpesa
PayPlan(store, by, u, id, phone) ==
    IF PayRejection(store, by, u, id, phone) # <<>> THEN {}
    ELSE {InitFrame(by, id, [opp |-> store[id].opportunityId, phone |-> phone])}

AdminAllowed == {"submitted", "under_review", "shortlisted", "rejected", "accepted"}

\* PATCH /:id: the response of the check that turns the request down
PatchRejection(store, u, id) ==
    IF FindOwned(store, u, id) = {} THEN <<"404", "Application not found">>
    ELSE IF store[id].status \notin {"pending_payment", "submitted"}
         THEN <<"400", "Application can no longer be updated">>
    ELSE <<>>

\* PATCH /:id
PatchPlan(store, u, id, cover) ==
    IF PatchRejection(store, u, id) # <<>> THEN {}
    ELSE {SaveFrame("patch", id,
                    Changed(store[id], IF cover # None THEN ("coverLetter" :> cover)
                                       ELSE NoMods),
                    "done", <<>>)}

\* DELETE /:id: the lookup alone, without the check of the status
DeleteRejectionAnyStatus(store, u, id) ==
    IF FindOwned(store, u, id) = {} THEN <<"404", "Application not found">>
    ELSE <<>>

\* DELETE /:id: the response of the check that turns the request down
DeleteRejection(store, u, id) ==
    IF FindOwned(store, u, id) = {} THEN <<"404", "Application not found">>
    ELSE IF store[id].status \notin {"pending_payment", "submitted"}
         THEN <<"400", "Application cannot be withdrawn">>
    ELSE <<>>

\* DELETE /:id
DeletePlan(store, u, id) ==
    IF DeleteRejection(store, u, id) # <<>> THEN {}
    ELSE {DeleteFrame("delete", id)}

\* the store after the write a frame waits for; nid: the next _id
Written(store, nid, f) ==
    IF f.op = "create" THEN StoreCreate(store, IdOrder[nid], f.mods)
    ELSE IF f.op = "save" THEN ApplySave(store, f.id, f.mods)
    ELSE IF f.op = "delete" THEN StoreDelete(store, f.id)
    ELSE store

\* the document a frame's write leaves the handler with
WrittenId(nid, f) == IF f.op = "create" THEN IdOrder[nid] ELSE f.id

----------------------------------------------------------------------------
(* Paystack flow, requests served one at a time: every action is a whole   *)
(* handler run                                                             *)

\* POST / on a request that passes the checks; existing: the result of the
\* lookup; ok: the provider call went through
CreateRun(u, o, resume, rec, cover, existing, ok) ==
    LET plan == CreatePlan(apps, u, o, resume, rec, cover, existing) IN
    /\ plan # {}
    /\ LET f == TheValue(plan) IN
       /\ f.op = "create" => nextId <= Len(IdOrder)
       /\ ok => CanInitiate
       /\ apps' = Written(apps, nextId, f)
       /\ nextId' = IF f.op = "create" THEN nextId + 1 ELSE nextId
       /\ initiated' = Provider(initiated, InitFrame(f.by, WrittenId(nextId, f), f.arg),
                                now, ok)
    /\ UNCHANGED <<inflight, now, cachedToken, tokenExpiry, nextCheckout>>

\* POST /, the response not recorded
Create(u, o, resume, rec, cover) ==
    \E existing \in FindExisting(apps, u, o), ok \in BOOLEAN :
        CreateRun(u, o, resume, rec, cover, existing, ok) /\ UNCHANGED res

\* POST /:id/pay (by = "pay", no phone) and POST /:id/charge-mpesa
\* (by = "charge") on a request that finds its application
PayRun(by, u, id, phone, ok) ==
    LET plan == PayPlan(apps, by, u, id, phone) IN
    /\ plan # {}
    /\ ok => CanInitiate
    /\ initiated' = Provider(initiated, TheValue(plan), now, ok)
    /\ UNCHANGED <<apps, nextId, inflight, now, cachedToken, tokenExpiry, nextCheckout>>

\* POST /:id/pay, the response not recorded
Pay(u, id) ==
    \E ok \in BOOLEAN : PayRun("pay", u, id, <<>>, ok) /\ UNCHANGED res

\* POST /:id/charge-mpesa, the response not recorded
ChargeMpesa(u, id, phone) ==
    \E ok \in BOOLEAN : PayRun("charge", u, id, phone, ok) /\ UNCHANGED res

\* POST webhook: paystackWebhookHandler on a delivery that makes it write;
\* the x-paystack-signature header of the request is not read
Webhook(d) ==
    /\ paystackWebhookPlan(apps, d) # {}
    /\ apps' = paystackWebhookHandler(apps, d)
    /\ UNCHANGED <<nextId, inflight, now,
                   cachedToken, tokenExpiry, initiated, nextCheckout, res>>

\* PATCH /admin/:id/status
AdminStatus(id, status) ==
    /\ status \in AdminAllowed
    /\ apps' = FindByIdAndUpdate(apps, id, status)
    /\ UNCHANGED <<nextId, inflight, now,
                   cachedToken, tokenExpiry, initiated, nextCheckout, res>>

\* PATCH /:id (plan = PatchPlan) and DELETE /:id (plan = DeletePlan) on a
\* request that passes the checks
WriteRun(plan) ==
    /\ plan # {}
    /\ apps' = Written(apps, nextId, TheValue(plan))
    /\ UNCHANGED <<nextId, inflight, now,
                   cachedToken, tokenExpiry, initiated, nextCheckout>>

\* PATCH /:id, the response not recorded
Patch(u, id, cover) == WriteRun(PatchPlan(apps, u, id, cover)) /\ UNCHANGED res

\* DELETE /:id, the response not recorded
Withdraw(u, id) == WriteRun(DeletePlan(apps, u, id)) /\ UNCHANGED res

\* the clock advances
Tick ==
    /\ now < MaxClock
    /\ now' = now + 1
    /\ UNCHANGED <<apps, nextId, inflight, initiated, nextCheckout, res,
                   cachedToken, tokenExpiry>>

Init ==
    /\ apps = <<>>
    /\ nextId = 1
    /\ inflight = EmptyBag
    /\ now = 0
    /\ initiated = EmptyBag
    /\ nextCheckout = 0
    /\ res = <<>>
    /\ cachedToken = None
    /\ tokenExpiry = 0

Optional(S) == {None} \cup {Some(x) : x \in S}

Next ==
    \/ \E u \in Users, o \in Opps, resume \in Optional(ResumeFiles),
          rec \in Optional(RecFiles), cover \in Optional(CoverLetters) :
          Create(u, o, resume, rec, cover)
    \/ \E u \in Users, id \in AppIds : Pay(u, id)
    \/ \E u \in Users, id \in AppIds, phone \in Phones : ChargeMpesa(u, id, phone)
    \/ \E d \in Deliveries : Webhook(d)
    \/ \E id \in AppIds, status \in Statuses : AdminStatus(id, status)
    \/ \E u \in Users, id \in AppIds, cover \in Optional(CoverLetters \cup {<<>>}) :
          Patch(u, id, cover)
    \/ \E u \in Users, id \in AppIds : Withdraw(u, id)
    \/ Tick

Spec == Init /\ [][Next]_vars

----------------------------------------------------------------------------
(* Paystack flow, requests overlapping: every handler is cut at its awaits *)
(* and its frame waits in inflight between the steps                       *)

\* a handler suspends on its store write or provider call
Suspends(plan) ==
    /\ CanSuspend
    /\ plan # {}
    /\ Suspend(TheValue(plan))
    /\ UNCHANGED <<apps, nextId, now,
                   cachedToken, tokenExpiry, initiated, nextCheckout, res>>

\* POST / up to existing.save() or Application.create(...)
CreateLookup(u, o, resume, rec, cover) ==
    \E existing \in FindExisting(apps, u, o) :
        Suspends(CreatePlan(apps, u, o, resume, rec, cover, existing))

\* POST /:id/pay up to getPaymentLink
PayLookup(u, id) == Suspends(PayPlan(apps, "pay", u, id, <<>>))

\* POST /:id/charge-mpesa up to chargeMpesa
ChargeMpesaLookup(u, id, phone) == Suspends(PayPlan(apps, "charge", u, id, phone))

\* paystackWebhookHandler up to application.save()
WebhookLookup(d) == Suspends(paystackWebhookPlan(apps, d))

\* PATCH /:id up to application.save()
PatchLookup(u, id, cover) == Suspends(PatchPlan(apps, u, id, cover))

\* DELETE /:id up to findByIdAndDelete
DeleteLookup(u, id) == Suspends(DeletePlan(apps, u, id))

\* the frame that follows a completed write, if any
AfterWrite(f, id) ==
    IF f.next = "init" THEN SetToBag({InitFrame(f.by, id, f.arg)}) ELSE EmptyBag

\* a save() reaches the store; it throws when it had paths to write and the
\* document is gone
SaveWrite(f) ==
    /\ f \in Frames /\ f.op = "save"
    /\ apps' = Written(apps, nextId, f)
    /\ inflight' = IF f.mods = NoMods \/ f.id \in DOMAIN apps
                   THEN Resume(f) (+) AfterWrite(f, f.id)
                   ELSE Resume(f)
    /\ UNCHANGED <<nextId, now, cachedToken, tokenExpiry, initiated, nextCheckout, res>>

\* Application.create(...) reaches the store
CreateWrite(f) ==
    /\ f \in Frames /\ f.op = "create"
    /\ nextId <= Len(IdOrder)
    /\ apps' = Written(apps, nextId, f)
    /\ nextId' = nextId + 1
    /\ inflight' = Resume(f) (+) AfterWrite(f, WrittenId(nextId, f))
    /\ UNCHANGED <<now, cachedToken, tokenExpiry, initiated, nextCheckout, res>>

\* Application.findByIdAndDelete reaches the store
DeleteWrite(f) ==
    /\ f \in Frames /\ f.op = "delete"
    /\ apps' = Written(apps, nextId, f)
    /\ inflight' = Resume(f)
    /\ UNCHANGED <<nextId, now, cachedToken, tokenExpiry, initiated, nextCheckout, res>>

\* getPaymentLink / chargeMpesa: the reference is built from the clock and
\* the request goes out; ok: the provider call went through
Initiate(f, ok) ==
    /\ f \in Frames /\ f.op = "init"
    /\ ok => CanInitiate
    /\ initiated' = Provider(initiated, f, now, ok)
    /\ inflight' = Resume(f)
    /\ UNCHANGED <<apps, nextId, now, cachedToken, tokenExpiry, nextCheckout, res>>

\* the inputs tried with overlapping requests
ConcDeliveries ==
    {Delivery(TRUE, "charge.success", TRUE, BareReference(id), Some(77), Some(35000)) :
        id \in AppIds}

ConcPhones == {phone \in Phones : PhoneAccepted(phone)}

ConcStatuses == {"submitted", "under_review"}

NextConc ==
    \/ \E u \in Users, o \in Opps, resume \in Optional({"cv1"}) :
          CreateLookup(u, o, resume, None, None)
    \/ \E f \in Frames : CreateWrite(f)
    \/ \E f \in Frames : SaveWrite(f)
    \/ \E f \in Frames, ok \in BOOLEAN : Initiate(f, ok)
    \/ \E u \in Users, id \in AppIds : PayLookup(u, id)
    \/ \E u \in Users, id \in AppIds, phone \in ConcPhones :
          ChargeMpesaLookup(u, id, phone)
    \/ \E d \in ConcDeliveries : WebhookLookup(d)
    \/ \E id \in AppIds, status \in ConcStatuses : AdminStatus(id, status)
    \/ \E u \in Users, id \in AppIds, cover \in Optional(CoverLetters) :
          PatchLookup(u, id, cover)
    \/ \E u \in Users, id \in AppIds : DeleteLookup(u, id)
    \/ \E f \in Frames : DeleteWrite(f)
    \/ Tick

SpecConc == Init /\ [][NextConc]_vars

----------------------------------------------------------------------------
(* Direct M-Pesa flow (routes/applications.js over utils/mpesa.js),        *)
(* requests served one at a time                                           *)

\* Daraja's answer to the token request, received at time at: the token,
\* which lapses expires_in seconds later, and expires_in
Grant(name, expiresIn, at) ==
    [access_token |-> [name |-> name, lapses |-> at + expiresIn * 1000],
     expires_in |-> expiresIn]

\* the answer the routes get: Daraja's tokens last an hour
RouteGrants(at) == {Grant("t1", 3599, at)}

\* cachedToken && Date.now() < tokenExpiry
CacheFresh == cachedToken # None /\ now < tokenExpiry

\* the assignments with the margin left out
TokenStoredNoMargin(data) ==
    /\ cachedToken' = Some(data.access_token)
    /\ tokenExpiry' = now + data.expires_in * 1000

\* cachedToken = data.access_token;
\* tokenExpiry = Date.now() + (data.expires_in - 60) * 1000
TokenStored(data) ==
    /\ cachedToken' = Some(data.access_token)
    /\ tokenExpiry' = now + (data.expires_in - 60) * 1000

\* getAccessToken run to its end, the token request, when one is made,
\* answered with data
getAccessToken(data) ==
    IF CacheFresh THEN UNCHANGED <<cachedToken, tokenExpiry>> ELSE TokenStored(data)

\* what initiateSTKPush run to its end leaves in the cache; ok: the push
\* went through; otherwise the token request failed, or the push did
StkPushToken(ok) ==
    \/ ~ok /\ UNCHANGED <<cachedToken, tokenExpiry>>
    \/ \E data \in RouteGrants(now) : getAccessToken(data)

MpesaDefaultFee == 500

\* opportunity.applicationFee || 500
MpesaFee(o) ==
    IF Opportunity(o).applicationFee # None /\ TheValue(Opportunity(o).applicationFee) # 0
    THEN TheValue(Opportunity(o).applicationFee)
    ELSE MpesaDefaultFee

\* the n-th CheckoutRequestID Daraja issues
CheckoutRequestID(n) == <<"w", "s", "_", "C", "O", "_">> \o ToDigits(n)

\* the n-th STK push: the AccountReference and Amount Daraja receives and
\* the CheckoutRequestID it answers with
StkPush(id, o, n) ==
    [id |-> id, reference |-> BareReference(id), amount |-> MpesaFee(o),
     CheckoutRequestID |-> CheckoutRequestID(n)]

CanPush == CanInitiate /\ nextCheckout < MaxCheckout

\* POST /: the validations and the uploads, given the result of the lookup;
\* the document handed to Application.create
MpesaCreatePlan(store, u, o, resume, rec, cover, existing) ==
    IF CreateRejection(store, o, resume, rec, existing) # <<>> THEN {}
    ELSE {NewDoc(u, o,
                 uploadToCloudinary(TheValue(resume), "resumes"),
                 IF rec # None
                 THEN Some(uploadToCloudinary(TheValue(rec), "recommendations"))
                 ELSE None,
                 cover)}

\* an STK push made whenever a phone number is given, its failure ignored
StkPushedAnyway(phone, ok) == phone # <<>>

\* POST /: the STK push is made when the body has a phoneNumber, and
\* returns a CheckoutRequestID when it goes through (ok)
StkPushed(phone, ok) == phone # <<>> /\ ok

\* POST / on a request that passes the checks; phone: the phoneNumber of
\* the body; ok: the STK push went through
MpesaCreateRun(u, o, resume, rec, cover, phone, existing, ok) ==
    LET plan == MpesaCreatePlan(apps, u, o, resume, rec, cover, existing)
        id == IdOrder[nextId]
        pushed == StkPushed(phone, ok)
    IN
    /\ plan # {}
    /\ nextId <= Len(IdOrder)
    /\ pushed => CanPush
    /\ nextId' = nextId + 1
    /\ apps' = IF pushed
               THEN ApplySave(StoreCreate(apps, id, TheValue(plan)), id,
                              "mpesaCheckoutRequestId" :>
                                  Some(CheckoutRequestID(nextCheckout + 1)))
               ELSE StoreCreate(apps, id, TheValue(plan))
    /\ initiated' = IF pushed THEN initiated (+) SetToBag({StkPush(id, o, nextCheckout + 1)})
                    ELSE initiated
    /\ nextCheckout' = IF pushed THEN nextCheckout + 1 ELSE nextCheckout
    /\ IF phone = <<>> THEN UNCHANGED <<cachedToken, tokenExpiry>> ELSE StkPushToken(ok)
    /\ UNCHANGED <<inflight, now>>

\* POST /, the response not recorded
MpesaCreate(u, o, resume, rec, cover, phone, ok) ==
    \E existing \in FindExisting(apps, u, o) :
       MpesaCreateRun(u, o, resume, rec, cover, phone, existing, ok) /\ UNCHANGED res

\* the stkCallback of a callback body
Callback(checkoutRequestId, resultCode, receipt, amount) ==
    [CheckoutRequestID |-> checkoutRequestId, ResultCode |-> resultCode,
     MpesaReceiptNumber |-> receipt, Amount |-> amount]

\* the callback's assignments, those of a success made whatever the result
CallbackModsAlwaysPaid(cb) ==
    ("status" :> IF cb.ResultCode = 0 THEN "submitted" ELSE "pending_payment")
    @@ ("mpesaTransactionId" :> cb.MpesaReceiptNumber)
    @@ ("amountPaid" :> cb.Amount)
    @@ ("mpesaCheckoutRequestId" :> None)

\* the callback's assignments without the one that clears the token
CallbackModsKeepToken(cb) ==
    ("status" :> IF cb.ResultCode = 0 THEN "submitted" ELSE "pending_payment")
    @@ (IF cb.ResultCode = 0
        THEN ("mpesaTransactionId" :> cb.MpesaReceiptNumber)
             @@ ("amountPaid" :> cb.Amount)
        ELSE NoMods)

\* the paths the callback handler sets on the document it found
CallbackMods(cb) ==
    ("status" :> IF cb.ResultCode = 0 THEN "submitted" ELSE "pending_payment")
    @@ (IF cb.ResultCode = 0
        THEN ("mpesaTransactionId" :> cb.MpesaReceiptNumber)
             @@ ("amountPaid" :> cb.Amount)
        ELSE NoMods)
    @@ ("mpesaCheckoutRequestId" :> None)

\* a lookup that finds every application waiting for a callback
FindByAnyCheckout(store, checkoutRequestId) ==
    {id \in DOMAIN store : store[id].mpesaCheckoutRequestId # None}

\* Application.findOne({ mpesaCheckoutRequestId })
FindByCheckout(store, checkoutRequestId) ==
    {id \in DOMAIN store : store[id].mpesaCheckoutRequestId = Some(checkoutRequestId)}

\* POST /mpesa-callback on a callback that finds an application: the
\* assignments and the save
CallbackRun(cb) ==
    \E id \in FindByCheckout(apps, cb.CheckoutRequestID) :
      /\ apps' = ApplySave(apps, id, Changed(apps[id], CallbackMods(cb)))
      /\ UNCHANGED <<nextId, inflight, now,
                     cachedToken, tokenExpiry, initiated, nextCheckout>>

\* POST /mpesa-callback, the response not recorded
MpesaCallback(cb) == CallbackRun(cb) /\ UNCHANGED res

\* POST /:id/pay; ok: the STK push went through; when it did not, the
\* handler answers 500 and only the token cache may have changed
MpesaPayRun(u, id, phone, ok) ==
    /\ phone # <<>>
    /\ FindPending(apps, u, id) # {}
    /\ StkPushToken(ok)
    /\ IF ok
       THEN /\ CanPush
            /\ apps' = ApplySave(apps, id,
                                 Changed(apps[id], "mpesaCheckoutRequestId" :>
                                     Some(CheckoutRequestID(nextCheckout + 1))))
            /\ initiated' = initiated (+) SetToBag({StkPush(id, apps[id].opportunityId,
                                                            nextCheckout + 1)})
            /\ nextCheckout' = nextCheckout + 1
       ELSE UNCHANGED <<apps, initiated, nextCheckout>>
    /\ UNCHANGED <<nextId, inflight, now>>

MpesaPay(u, id, phone, ok) == MpesaPayRun(u, id, phone, ok) /\ UNCHANGED res

\* the callbacks tried: for every CheckoutRequestID issued so far and one
\* never issued, success (ResultCode 0) and a failure code
Callbacks ==
    {Callback(CheckoutRequestID(n), code, receipt, amount) :
        n \in 1..(MaxCheckout + 1), code \in {0, 1032},
        receipt \in Optional({<<"R", "1">>}),
        amount \in Optional({AmountPaid(MpesaDefaultFee * 100)})}

NextMpesa ==
    \/ \E u \in Users, o \in Opps, resume \in Optional(ResumeFiles),
          rec \in Optional(RecFiles), cover \in Optional(CoverLetters),
          phone \in Phones, ok \in BOOLEAN :
          MpesaCreate(u, o, resume, rec, cover, phone, ok)
    \/ \E cb \in Callbacks : MpesaCallback(cb)
    \/ \E u \in Users, id \in AppIds, phone \in Phones, ok \in BOOLEAN :
          MpesaPay(u, id, phone, ok)

SpecMpesa == Init /\ [][NextMpesa]_vars

\* what POST /mpesa-callback sends and does on a callback: the
\* acknowledgement, the lookup, and the save when an application is found
CallbackSteps(cb, found) ==
    <<"request", "POST /mpesa-callback">> \o cb.CheckoutRequestID
    \o <<"200", "findOne">> \o (IF found THEN <<"save">> ELSE <<>>)

\* POST /mpesa-callback on a callback that finds an application
CallbackSaved(cb) == CallbackRun(cb) /\ res' = CallbackSteps(cb, TRUE)

\* POST /mpesa-callback on a callback that finds none: if (!application) return
CallbackIgnored(cb) ==
    /\ FindByCheckout(apps, cb.CheckoutRequestID) = {}
    /\ res' = CallbackSteps(cb, FALSE)
    /\ UNCHANGED <<apps, nextId, inflight, now,
                   cachedToken, tokenExpiry, initiated, nextCheckout>>

\* the callbacks whose handling is recorded: with receipt and amount
ObservedCallbacks == {cb \in Callbacks : cb.MpesaReceiptNumber # None /\ cb.Amount # None}

\* the direct M-Pesa flow up to one callback whose handling is recorded
NextMpesaObserved ==
    \/ \E u \in Users, o \in Opps, resume \in Optional(ResumeFiles),
          rec \in Optional(RecFiles), cover \in Optional(CoverLetters),
          phone \in Phones, ok \in BOOLEAN :
          res = <<>> /\ MpesaCreate(u, o, resume, rec, cover, phone, ok)
    \/ \E cb \in Callbacks : res = <<>> /\ MpesaCallback(cb)
    \/ \E u \in Users, id \in AppIds, phone \in Phones, ok \in BOOLEAN :
          res = <<>> /\ MpesaPay(u, id, phone, ok)
    \/ \E cb \in ObservedCallbacks : res = <<>> /\ CallbackSaved(cb)
    \/ \E cb \in ObservedCallbacks : res = <<>> /\ CallbackIgnored(cb)

SpecMpesaObserved == Init /\ [][NextMpesaObserved]_vars

\* the direct M-Pesa flow with /:id/pay and the callback handler cut at
\* their awaits

\* a handler suspended on the token request of getAccessToken
TokenFrame(by, id, arg) ==
    [op |-> "token", by |-> by, id |-> id, mods |-> NoMods, next |-> "done", arg |-> arg]

\* POST /:id/pay up to the first request initiateSTKPush awaits: the push
\* when the cached token is used, the token request otherwise
MpesaPayLookup(u, id, phone) ==
    /\ phone # <<>>
    /\ FindPending(apps, u, id) # {}
    /\ CanSuspend
    /\ LET arg == [opp |-> apps[id].opportunityId, phone |-> phone] IN
       Suspend(IF CacheFresh THEN InitFrame("mpesa-pay", id, arg)
               ELSE TokenFrame("mpesa-pay", id, arg))
    /\ UNCHANGED <<apps, nextId, now,
                   cachedToken, tokenExpiry, initiated, nextCheckout, res>>

\* the token request of /:id/pay is answered: with a token (ok), which
\* getAccessToken stores before the push is sent, or with an error, which
\* the handler answers 500
TokenReturns(f, ok) ==
    /\ f \in Frames /\ f.op = "token" /\ f.by = "mpesa-pay"
    /\ IF ok THEN \E data \in RouteGrants(now) : TokenStored(data)
       ELSE UNCHANGED <<cachedToken, tokenExpiry>>
    /\ inflight' = IF ok THEN Resume(f) (+) SetToBag({InitFrame(f.by, f.id, f.arg)})
                   ELSE Resume(f)
    /\ UNCHANGED <<apps, nextId, now, initiated, nextCheckout, res>>

\* initiateSTKPush returns (ok) and the handler assigns the new
\* CheckoutRequestID and calls save(), or throws and the handler answers 500
StkPushReturns(f, ok) ==
    /\ f \in Frames /\ f.op = "init" /\ f.by = "mpesa-pay"
    /\ ok => CanPush
    /\ initiated' = IF ok THEN initiated (+) SetToBag({StkPush(f.id, f.arg.opp, nextCheckout + 1)})
                    ELSE initiated
    /\ nextCheckout' = IF ok THEN nextCheckout + 1 ELSE nextCheckout
    /\ inflight' = IF ok
                   THEN Resume(f) (+) SetToBag({SaveFrame("mpesa-pay", f.id,
                            "mpesaCheckoutRequestId" :> Some(CheckoutRequestID(nextCheckout + 1)),
                            "done", <<>>)})
                   ELSE Resume(f)
    /\ UNCHANGED <<apps, nextId, now, cachedToken, tokenExpiry, res>>

\* POST /mpesa-callback up to application.save()
MpesaCallbackLookup(cb) ==
    /\ CanSuspend
    /\ \E id \in FindByCheckout(apps, cb.CheckoutRequestID) :
          Suspend(SaveFrame("callback", id, Changed(apps[id], CallbackMods(cb)), "done", <<>>))
    /\ UNCHANGED <<apps, nextId, now,
                   cachedToken, tokenExpiry, initiated, nextCheckout, res>>

\* the callbacks tried with overlapping requests
ConcCallbacks == {cb \in ObservedCallbacks : cb.CheckoutRequestID # CheckoutRequestID(MaxCheckout + 1)}

NextMpesaConc ==
    \/ \E u \in Users, o \in Opps, phone \in ConcPhones \cup {<<>>} :
          MpesaCreate(u, o, Some("cv1"), None, None, phone, TRUE)
    \/ \E u \in Users, id \in AppIds, phone \in ConcPhones : MpesaPayLookup(u, id, phone)
    \/ \E f \in Frames, ok \in BOOLEAN : TokenReturns(f, ok)
    \/ \E f \in Frames, ok \in BOOLEAN : StkPushReturns(f, ok)
    \/ \E cb \in ConcCallbacks : MpesaCallbackLookup(cb)
    \/ \E f \in Frames : SaveWrite(f)

SpecMpesaConc == Init /\ [][NextMpesaConc]_vars

----------------------------------------------------------------------------
(* The webhook handler on stores of up to two applications of two users    *)

WebhookUsers == {"u1", "u2"}

\* an application of user u as the routes leave it in a status: unpaid in
\* pending_payment, with the fields of a confirmed payment past it
DocIn(u, status) ==
    [NewDoc(u, "o1", uploadToCloudinary("cv1", "resumes"), None, None)
        EXCEPT !.status = status,
               !.paymentTransactionId =
                    IF status = "pending_payment" THEN None ELSE Some(ToDigits(12)),
               !.amountPaid =
                    IF status = "pending_payment" THEN None
                    ELSE Some(AmountPaid(DefaultFee * 100))]

WebhookStores ==
    {store \in UNION {[ids -> {DocIn(u, status) : u \in WebhookUsers, status \in Statuses}] :
                         ids \in SUBSET AppIds} :
        \A i, j \in DOMAIN store : store[i].userId = store[j].userId => i = j}

InitWebhook ==
    /\ apps \in WebhookStores
    /\ nextId = Len(IdOrder) + 1
    /\ inflight = EmptyBag
    /\ now = 0
    /\ initiated = EmptyBag
    /\ nextCheckout = 0
    /\ res = <<>>
    /\ cachedToken = None
    /\ tokenExpiry = 0

NextWebhook == \E d \in Deliveries : Webhook(d)

SpecWebhook == InitWebhook /\ [][NextWebhook]_vars

----------------------------------------------------------------------------
(* The webhook handler with deliveries overlapping: each run suspends      *)
(* between Application.findById and application.save()                     *)

\* charge.success deliveries naming each application, with and without
\* transaction id and amount
RaceDeliveries ==
    {Delivery(TRUE, "charge.success", TRUE, BareReference(id), i, a) :
        id \in AppIds, i \in {None, Some(77)}, a \in {None, Some(35000)}}

NextWebhookConc ==
    \/ \E d \in RaceDeliveries : WebhookLookup(d)
    \/ \E f \in Frames : SaveWrite(f)

SpecWebhookConc == InitWebhook /\ [][NextWebhookConc]_vars

\* the webhook handler among administrator edits and withdrawals; an
\* awaited save() is served by the store sooner or later

\* the save() calls a delivery for a pending_payment application leads to
LiveFrames ==
    {SaveFrame("webhook", RecoverId(d.reference), WebhookMods(d), "done", <<>>) :
        d \in RaceDeliveries}

NextWebhookLive ==
    \/ \E d \in RaceDeliveries : WebhookLookup(d)
    \/ \E f \in Frames : SaveWrite(f)
    \/ \E id \in AppIds, status \in ConcStatuses : AdminStatus(id, status)
    \/ \E u \in WebhookUsers, id \in AppIds : Withdraw(u, id)

SpecWebhookLive ==
    /\ InitWebhook
    /\ [][NextWebhookLive]_vars
    /\ \A f \in LiveFrames : WF_vars(SaveWrite(f))

----------------------------------------------------------------------------
(* The two callback handlers, one run at a time, with what the run sends   *)
(* and does recorded in res: "request" when the handler is entered, the    *)
(* response, the store calls                                               *)

\* res.status(200).send(), the first statement of paystackWebhookHandler
OnReceive(d) == <<"200">>

\* res.status(200).json({ ResultCode: 0, ResultDesc: 'Accepted' }), the
\* first statement of the M-Pesa callback handler
OnCallback(body) == <<"200">>

\* a handler waiting for the result of its lookup; arg: the request body
FindFrame(by, arg) ==
    [op |-> "find", by |-> by, id |-> <<>>, mods |-> NoMods, next |-> "done", arg |-> arg]

\* paystackWebhookHandler from its entry to the call of Application.findById
WebhookReceive(d) ==
    /\ inflight = EmptyBag
    /\ res' = <<"request">> \o OnReceive(d)
                 \o (IF WebhookAccepts(d) THEN <<"findById">> ELSE <<>>)
    /\ inflight' = IF WebhookAccepts(d) THEN SetToBag({FindFrame("webhook", d)})
                   ELSE EmptyBag
    /\ UNCHANGED <<apps, nextId, now,
                   cachedToken, tokenExpiry, initiated, nextCheckout>>

\* the lookup returns: the status check, the assignments, the call of save()
WebhookFound(f) ==
    /\ f \in Frames /\ f.op = "find" /\ f.by = "webhook"
    /\ inflight' = SetToBag(paystackWebhookPlan(apps, f.arg))
    /\ UNCHANGED <<apps, nextId, now,
                   cachedToken, tokenExpiry, initiated, nextCheckout, res>>

\* the bodies the M-Pesa callback handler receives: without
\* Body.stkCallback, or with one
CallbackBodies == Optional(Callbacks)

\* the M-Pesa callback handler from its entry to the call of
\* Application.findOne
CallbackReceive(body) ==
    /\ inflight = EmptyBag
    /\ res' = <<"request">> \o OnCallback(body)
                 \o (IF body # None THEN <<"findOne">> ELSE <<>>)
    /\ inflight' = IF body # None THEN SetToBag({FindFrame("callback", TheValue(body))})
                   ELSE EmptyBag
    /\ UNCHANGED <<apps, nextId, now,
                   cachedToken, tokenExpiry, initiated, nextCheckout>>

\* what errorHandler answers to a body the JSON parser rejects
ErrorResponse == "400"

\* app.use(express.json()) on a callback body that is not JSON: the parser
\* passes its error to errorHandler and the route handler is not entered
CallbackUnparsed ==
    /\ inflight = EmptyBag
    /\ res' = <<"request", ErrorResponse>>
    /\ UNCHANGED <<apps, nextId, inflight, now,
                   cachedToken, tokenExpiry, initiated, nextCheckout>>

\* the lookup returns: the assignments and the call of save()
CallbackFound(f) ==
    /\ f \in Frames /\ f.op = "find" /\ f.by = "callback"
    /\ inflight' =
         SetToBag({SaveFrame("callback", id, Changed(apps[id], CallbackMods(f.arg)),
                             "done", <<>>) :
                      id \in FindByCheckout(apps, f.arg.CheckoutRequestID)})
    /\ UNCHANGED <<apps, nextId, now,
                   cachedToken, tokenExpiry, initiated, nextCheckout, res>>

\* save() reaches the store (ok) or fails; the handlers catch nothing
ObservedSave(f, ok) ==
    /\ f \in Frames /\ f.op = "save"
    /\ apps' = IF ok THEN Written(apps, nextId, f) ELSE apps
    /\ res' = Append(res, IF ok THEN "save" ELSE "save failed")
    /\ inflight' = EmptyBag
    /\ UNCHANGED <<nextId, now, cachedToken, tokenExpiry, initiated, nextCheckout>>

\* the stores of SpecWebhook, the pending application of user u2 waiting
\* for the callback of an STK push
AckStores ==
    {[id \in DOMAIN store |->
        IF store[id].status = "pending_payment" /\ store[id].userId = "u2"
        THEN [store[id] EXCEPT !.mpesaCheckoutRequestId = Some(CheckoutRequestID(1))]
        ELSE store[id]] : store \in WebhookStores}

InitAck ==
    /\ apps \in AckStores
    /\ nextId = Len(IdOrder) + 1
    /\ inflight = EmptyBag
    /\ now = 0
    /\ initiated = EmptyBag
    /\ nextCheckout = 1
    /\ res = <<>>
    /\ cachedToken = None
    /\ tokenExpiry = 0

NextAck ==
    \/ \E d \in Deliveries : WebhookReceive(d)
    \/ \E f \in Frames : WebhookFound(f)
    \/ \E body \in CallbackBodies : CallbackReceive(body)
    \/ CallbackUnparsed
    \/ \E f \in Frames : CallbackFound(f)
    \/ \E f \in Frames, ok \in BOOLEAN : ObservedSave(f, ok)

SpecAck == InitAck /\ [][NextAck]_vars

----------------------------------------------------------------------------
(* The Paystack flow over opportunities with an explicit fee, the provider *)
(* confirming every charge with the amount it was asked to collect         *)

MaxFee == 400

\* Paystack's charge.success for a charge it received
Confirmation(c) ==
    Delivery(TRUE, "charge.success", TRUE, c.reference, None, Some(c.amount))

NextAmount ==
    \/ \E u \in Users, o \in FeeOpps : Create(u, o, Some("cv1"), None, None)
    \/ \E u \in Users, id \in AppIds : Pay(u, id)
    \/ \E u \in Users, id \in AppIds, phone \in ConcPhones : ChargeMpesa(u, id, phone)
    \/ \E c \in BagToSet(initiated) : Webhook(Confirmation(c))
    \/ \E u \in Users, id \in AppIds : Withdraw(u, id)
    \/ Tick

SpecAmount == Init /\ [][NextAmount]_vars

----------------------------------------------------------------------------
(* The user-facing routes of the Paystack flow serving one request on a    *)
(* store of up to two applications of two users; res records the request,  *)
(* what the handler did and the response                                   *)

\* the request as res records it: the route, the user of the token and
\* the opportunity or application named
Request(route, u, target) == <<"request", route, u>> \o target

\* a request turned down: the response, and nothing else
Answer(request, rejection) ==
    /\ res' = request \o rejection
    /\ UNCHANGED <<apps, nextId, inflight, now,
                   cachedToken, tokenExpiry, initiated, nextCheckout>>

\* what POST / does once the checks are passed: the uploads, the store
\* write (op), getPaymentLink, the response
CreateSteps(rec, op, ok) ==
    <<"upload">> \o (IF rec # None THEN <<"upload">> ELSE <<>>)
    \o <<op, "initiate">>
    \o (IF ok THEN <<"200", "Application saved. Complete payment via the link to finish.">>
        ELSE <<"500">>)

\* POST /
CreateRequest(u, o, resume, rec, cover) ==
    \E existing \in FindExisting(apps, u, o) :
      LET rejection == CreateRejection(apps, o, resume, rec, existing) IN
      IF rejection # <<>> THEN Answer(Request("POST /", u, <<o>>), rejection)
      ELSE \E ok \in BOOLEAN :
           /\ CreateRun(u, o, resume, rec, cover, existing, ok)
           /\ res' = Request("POST /", u, <<o>>)
                \o CreateSteps(rec, TheValue(CreatePlan(apps, u, o, resume, rec,
                                                        cover, existing)).op, ok)

\* what the direct M-Pesa POST / does once the checks are passed: the
\* uploads, Application.create, and with a phoneNumber the STK push, the
\* save of its CheckoutRequestID and the response
MpesaCreateSteps(rec, phone, ok) ==
    <<"upload">> \o (IF rec # None THEN <<"upload">> ELSE <<>>) \o <<"create">>
    \o (IF phone = <<>>
        THEN <<"200", "Application saved. Provide phone number to complete payment via M-Pesa.">>
        ELSE <<"initiate">>
             \o (IF ok
                 THEN <<"save", "200", "Enter your M-Pesa PIN on your phone to complete payment.">>
                 ELSE <<"500">>))

\* POST / of routes/applications.js
MpesaCreateRequest(u, o, resume, rec, cover, phone) ==
    \E existing \in FindExisting(apps, u, o) :
      LET rejection == CreateRejection(apps, o, resume, rec, existing) IN
      IF rejection # <<>> THEN Answer(Request("POST / (M-Pesa)", u, <<o>>), rejection)
      ELSE \E ok \in BOOLEAN :
           /\ MpesaCreateRun(u, o, resume, rec, cover, phone, existing, ok)
           /\ res' = Request("POST / (M-Pesa)", u, <<o>>) \o MpesaCreateSteps(rec, phone, ok)

\* the routes of PayRequest
PayRoute(by) == IF by = "charge" THEN "POST /:id/charge-mpesa" ELSE "POST /:id/pay"

\* POST /:id/pay (by = "pay", no phone) and POST /:id/charge-mpesa
\* (by = "charge"); a failed provider call is answered 500 by the first and
\* 400 by the second
PayRequest(by, u, id, phone) ==
    LET rejection == PayRejection(apps, by, u, id, phone) IN
    IF rejection # <<>> THEN Answer(Request(PayRoute(by), u, id), rejection)
    ELSE \E ok \in BOOLEAN :
         /\ PayRun(by, u, id, phone, ok)
         /\ res' = Request(PayRoute(by), u, id) \o <<"initiate">>
              \o (IF ok /\ Reaches(TheValue(PayPlan(apps, by, u, id, phone)))
                  THEN <<"200">>
                  ELSE IF by = "charge" THEN <<"400">> ELSE <<"500">>)

\* PATCH /:id
PatchRequest(u, id, cover) ==
    LET rejection == PatchRejection(apps, u, id) IN
    IF rejection # <<>> THEN Answer(Request("PATCH /:id", u, id), rejection)
    ELSE /\ WriteRun(PatchPlan(apps, u, id, cover))
         /\ res' = Request("PATCH /:id", u, id) \o <<"save", "200">>

\* DELETE /:id
DeleteRequest(u, id) ==
    LET rejection == DeleteRejection(apps, u, id) IN
    IF rejection # <<>> THEN Answer(Request("DELETE /:id", u, id), rejection)
    ELSE /\ WriteRun(DeletePlan(apps, u, id))
         /\ res' = Request("DELETE /:id", u, id)
                      \o <<"delete", "200", "Application withdrawn">>

\* an application as the routes leave it: that of user u1 is for the
\* attachment o2, with its letter, and that of user u2 for opportunity o3,
\* closed since
RequestDoc(u, status) ==
    IF u = "u2" THEN [DocIn(u, status) EXCEPT !.opportunityId = "o3"]
    ELSE [DocIn(u, status) EXCEPT
             !.opportunityId = "o2",
             !.recommendationLetterUrl =
                 Some(uploadToCloudinary("rl1", "recommendations"))]

\* up to two applications, also two of one user for one opportunity, which
\* two overlapping create requests leave behind
RequestStores ==
    UNION {[ids -> {RequestDoc(u, status) : u \in WebhookUsers, status \in Statuses}] :
              ids \in SUBSET AppIds}

RequestOpps == {"o1", "o2", "o3", UnknownOpp}
RequestIds == AppIds \cup {UnknownId}

\* the _ids of IdOrder up to the last one in use are spent
InitRequests ==
    /\ apps \in RequestStores
    /\ LET used == {k \in 1..Len(IdOrder) : IdOrder[k] \in DOMAIN apps}
       IN nextId = IF used = {} THEN 1
                   ELSE 1 + CHOOSE k \in used : \A j \in used : j <= k
    /\ inflight = EmptyBag
    /\ now = 0
    /\ initiated = EmptyBag
    /\ nextCheckout = 0
    /\ res = <<>>
    /\ cachedToken = None
    /\ tokenExpiry = 0

\* no request has been served yet
Unserved == res = <<>>

\* one request is served from each store
NextRequests ==
    \/ \E u \in WebhookUsers, o \in RequestOpps, resume \in Optional({"cv2"}),
          rec \in Optional(RecFiles), cover \in Optional(CoverLetters) :
          Unserved /\ CreateRequest(u, o, resume, rec, cover)
    \/ \E u \in WebhookUsers, id \in RequestIds :
          Unserved /\ PayRequest("pay", u, id, <<>>)
    \/ \E u \in WebhookUsers, id \in RequestIds, phone \in Phones :
          Unserved /\ PayRequest("charge", u, id, phone)
    \/ \E u \in WebhookUsers, id \in RequestIds,
          cover \in Optional(CoverLetters \cup {<<>>}) :
          Unserved /\ PatchRequest(u, id, cover)
    \/ \E u \in WebhookUsers, id \in RequestIds : Unserved /\ DeleteRequest(u, id)
    \/ \E u \in WebhookUsers, o \in RequestOpps, resume \in Optional({"cv2"}),
          rec \in Optional(RecFiles), phone \in Phones :
          Unserved /\ MpesaCreateRequest(u, o, resume, rec, None, phone)

SpecRequests == InitRequests /\ [][NextRequests]_vars

----------------------------------------------------------------------------
(* Properties of the Paystack flow *)

\* a well-formed charge.success delivery whose reference is the one built
\* for application id, with or without a timestamp
SuccessFor(d, id) ==
    /\ d.wellFormed /\ d.event = "charge.success" /\ d.hasData
    /\ \/ d.reference = BareReference(id)
       \/ \E t \in 0..MaxClock : d.reference = BuildReference(id, t)

\* what the handler writes for a delivery
Recorded(doc, d) ==
    /\ doc.status = "submitted"
    /\ doc.paymentTransactionId =
          Some(IF d.id # None THEN ToDigits(TheValue(d.id)) ELSE d.reference)
    /\ d.amount # None => doc.amountPaid = Some(AmountPaid(TheValue(d.amount)))

\* C1: the same charge.success delivery processed twice in sequence for an
\* application in pending_payment makes one pending_payment -> submitted
\* transition: the second run stops at the status check and leaves every
\* application as the first run left it.
C1_ReplayIsIdempotent ==
    \A id \in DOMAIN apps : \A d \in Deliveries :
        (apps[id].status = "pending_payment" /\ SuccessFor(d, id)) =>
            LET once == paystackWebhookHandler(apps, d)
                twice == paystackWebhookHandler(once, d)
            IN /\ once[id].status = "submitted"
               /\ paystackWebhookPlan(once, d) = {}
               /\ twice = once

\* C1 witness: an application a delivery has moved to submitted, on which
\* the same delivery again changes nothing
C1_Witness ==
    \E d \in Deliveries : \E id \in DOMAIN apps :
        /\ SuccessFor(d, id)
        /\ Recorded(apps[id], d)
        /\ paystackWebhookHandler(apps, d) = apps

\* C2: a delivery whose signature header does not match the keyed hash of
\* its body changes no application.
C2_ForgedDeliveryChangesNothing ==
    \A d \in Deliveries : \A signature \in SignatureHeaders(d) :
        ~verifyWebhookSignature(Body(d), signature) =>
            paystackWebhookHandler(apps, d) = apps

\* C3: the handler changes the store only for a well-formed charge.success
\* delivery with data whose reference starts with APP- and names an existing
\* application in pending_payment, and then it changes that application
\* alone; every other delivery changes nothing.
C3_WebhookMutatesOnlyPending ==
    \A d \in Deliveries :
        LET after == paystackWebhookHandler(apps, d) IN
        after # apps =>
            /\ d.wellFormed /\ d.event = "charge.success" /\ d.hasData
            /\ StartsWith(d.reference, APP)
            /\ DOMAIN after = DOMAIN apps
            /\ \E id \in DOMAIN apps :
                 /\ SuccessFor(d, id)
                 /\ apps[id].status = "pending_payment"
                 /\ \A j \in DOMAIN apps \ {id} : after[j] = apps[j]

\* C3 witness: a store of two applications in which a charge.success
\* delivery has moved the one it names to submitted, has left the other in
\* pending_payment, and is ignored when it comes again
C3_Witness ==
    \E d \in Deliveries : \E id, other \in DOMAIN apps :
        /\ other # id
        /\ SuccessFor(d, id)
        /\ Recorded(apps[id], d)
        /\ apps[other] = DocIn(apps[other].userId, "pending_payment")
        /\ paystackWebhookHandler(apps, d) = apps

Rank(status) ==
    CASE status = "pending_payment" -> 0
      [] status = "submitted" -> 1
      [] status = "under_review" -> 2
      [] OTHER -> 3

\* C4: no step moves an application's status to an earlier status in the
\* order pending_payment < submitted < under_review < {shortlisted,
\* rejected, accepted}.
C4_StatusNeverRegresses ==
    [][\A id \in DOMAIN apps \cap DOMAIN apps' :
          Rank(apps'[id].status) >= Rank(apps[id].status)]_vars

ReviewStatuses == {"under_review", "shortlisted", "rejected", "accepted"}

\* C5: an application enters a review status only from submitted or from a
\* review status, so none reaches one without having been submitted.
C5_ReviewOnlyAfterSubmitted ==
    [][\A id \in DOMAIN apps' :
          apps'[id].status \in ReviewStatuses =>
             /\ id \in DOMAIN apps
             /\ apps[id].status \in {"submitted"} \cup ReviewStatuses]_vars

\* C6: a step takes an application from pending_payment to submitted only
\* when it is the processing of a charge.success delivery.
C6_SubmittedOnlyByPayment ==
    [][\A id \in DOMAIN apps \cap DOMAIN apps' :
          (apps[id].status = "pending_payment" /\ apps'[id].status = "submitted") =>
             \E d \in Deliveries : SuccessFor(d, id) /\ Webhook(d)]_vars

\* two charges of one application, the first with the earlier timestamp
Superseded(c1, c2) ==
    /\ c1.id = c2.id
    /\ \E t1, t2 \in 0..MaxClock :
         /\ t1 < t2
         /\ c1.reference = BuildReference(c1.id, t1)
         /\ c2.reference = BuildReference(c2.id, t2)

\* a charge.success delivery echoing the reference of charge c
Echoes(d, c) ==
    d.wellFormed /\ d.event = "charge.success" /\ d.hasData /\ d.reference = c.reference

C8_ReferencesDiffer ==
    \A c \in BagToSet(initiated) : CopiesIn(c, initiated) = 1

----------------------------------------------------------------------------
(* Properties of the flows with overlapping requests and of the direct     *)
(* M-Pesa flow                                                             *)

\* the applications of user u for opportunity o in a store
Of(store, u, o) ==
    {id \in DOMAIN store : store[id].userId = u /\ store[id].opportunityId = o}

\* C9: when a user creates an application for an opportunity for which
\* they hold one application, in pending_payment, the pair still has one
\* application afterwards, the same one.
C9_CreateReusesPending ==
    [][\A u \in Users, o \in Opps :
          (\E id \in DOMAIN apps :
                Of(apps, u, o) = {id} /\ apps[id].status = "pending_payment") =>
             Of(apps', u, o) \subseteq Of(apps, u, o)]_vars

\* C10: at most one application per (user, opportunity) pair in every
\* state of every interleaving of create requests.
C10_AtMostOnePerPair ==
    \A u \in Users, o \in Opps : Cardinality(Of(apps, u, o)) <= 1

----------------------------------------------------------------------------
(* Properties of the webhook handler with overlapping deliveries *)

\* C11: of the deliveries processed concurrently for one application in
\* pending_payment, one makes the transition and writes; the save of a
\* delivery that arrives once the application has left pending_payment
\* writes nothing.
C11_LateSaveWritesNothing ==
    [][\A f \in Frames :
          (/\ f.by = "webhook" /\ SaveWrite(f)
           /\ f.id \in DOMAIN apps /\ apps[f.id].status # "pending_payment") =>
             apps' = apps]_vars

----------------------------------------------------------------------------
(* Properties of the callback handlers' acknowledgment *)

StoreCalls == {"findById", "findOne", "save", "save failed"}

\* C12: every callback request, whatever its body, is answered 200 as the
\* first thing done for it, and every store call made for it comes later.
C12_AckBeforeProcessing ==
    res # <<>> =>
        /\ Len(res) >= 2
        /\ res[1] = "request" /\ res[2] = "200"
        /\ \A i \in 3..Len(res) : res[i] \in StoreCalls

----------------------------------------------------------------------------
(* Properties of the amounts *)

\* a whole amount as the store holds it
Whole(a) == [units |-> a, hundredths |-> 0]

\* C13: every charge sent for an application whose opportunity has the
\* whole-unit fee a carries a * 100, an application submitted by the
\* confirmation of such a charge holds amountPaid = a, and the two
\* conversions compose to the identity on every whole amount.
C13_AmountRoundTrips ==
    /\ \A c \in BagToSet(initiated) : \A id \in DOMAIN apps :
          c.id = id => c.amount = OppFee[apps[id].opportunityId] * 100
    /\ \A id \in DOMAIN apps :
          apps[id].status = "submitted" =>
             apps[id].amountPaid = Some(Whole(OppFee[apps[id].opportunityId]))
    /\ \A a \in 0..MaxFee : AmountPaid(AmountInSmallest(a)) = Whole(a)

\* C13 witness: an application for the opportunity with fee 200, charged
\* 20000 and submitted with amountPaid 200
C13_Witness ==
    \E id \in DOMAIN apps : \E c \in BagToSet(initiated) :
        /\ apps[id].opportunityId = "f200"
        /\ c.id = id /\ c.amount = 20000
        /\ apps[id].status = "submitted"
        /\ apps[id].amountPaid = Some(Whole(200))

\* C14: every initiation for an application whose opportunity has no
\* explicit fee carries the amount 350: 350 in an STK push, 35000 of the
\* smallest unit in a Paystack charge.
C14_DefaultFeeIs350 ==
    \A c \in BagToSet(initiated) : \A id \in DOMAIN apps :
        (c.id = id /\ Opportunity(apps[id].opportunityId).applicationFee = None) =>
            c.amount \in {DefaultFee, AmountInSmallest(DefaultFee)}

----------------------------------------------------------------------------
(* Properties of the user-facing routes *)

\* the store, the _ids and the provider's log are as before the step
NoEffect == apps' = apps /\ nextId' = nextId /\ initiated' = initiated

LetterRequired == <<"400", "Recommendation letter is required for attachments">>

\* C15 as stated: a create request without recommendation letter for the
\* attachment opportunity is answered 400 "Recommendation letter is
\* required for attachments" and has no effect.
C15_NoLetterAnswered400 ==
    [][\A u \in WebhookUsers, resume \in Optional({"cv2"}),
          cover \in Optional(CoverLetters) :
          CreateRequest(u, "o2", resume, None, cover) =>
             /\ res' = Request("POST /", u, <<"o2">>) \o LetterRequired
             /\ NoEffect]_vars

\* C15 amended: a create request that carries a resume and no
\* recommendation letter, for an active opportunity for which the user has
\* no application past pending_payment, is answered 400 "Recommendation
\* letter is required for attachments" and has no effect when the
\* opportunity is an attachment, and goes on to the uploads when it is an
\* internship; a request without letter that fails an earlier check is
\* answered by that check, also without effect.
C15_LetterRequiredForAttachment ==
    [][\A u \in WebhookUsers, o \in RequestOpps, resume \in Optional({"cv2"}),
          cover \in Optional(CoverLetters) :
          CreateRequest(u, o, resume, None, cover) =>
             IF /\ OpportunityFound(o) /\ Opportunity(o).isActive /\ resume # None
                /\ \A id \in Of(apps, u, o) : apps[id].status = "pending_payment"
             THEN IF Opportunity(o).type = "attachment"
                  THEN /\ res' = Request("POST /", u, <<o>>) \o LetterRequired
                       /\ NoEffect
                  ELSE SubSeq(res', 1, 5) = Request("POST /", u, <<o>>) \o <<"upload">>
             ELSE /\ NoEffect
                  /\ Len(res') = 6 /\ res'[5] \in {"400", "404"}]_vars

\* C15 witness: the attachment request turned down for the missing letter
C15_Witness ==
    \E u \in WebhookUsers : res = Request("POST /", u, <<"o2">>) \o LetterRequired

\* the applications of user u for opportunity o past pending_payment
Past(store, u, o) == {id \in Of(store, u, o) : store[id].status # "pending_payment"}

AlreadyApplied == <<"400", "You have already applied">>

\* C16 as stated: a create request of a user who has an application for
\* the opportunity in a status other than pending_payment is answered 400
\* "You have already applied" and changes nothing.
C16_AppliedAnswered400 ==
    [][\A u \in WebhookUsers, o \in RequestOpps, resume \in Optional({"cv2"}),
          rec \in Optional(RecFiles), cover \in Optional(CoverLetters) :
          CreateRequest(u, o, resume, rec, cover) /\ Past(apps, u, o) # {} =>
             /\ res' = Request("POST /", u, <<o>>) \o AlreadyApplied
             /\ NoEffect]_vars

\* C16 amended: a create request for an active opportunity, of a user all
\* of whose applications for it are past pending_payment, is answered 400
\* "You have already applied" and changes nothing; for a closed opportunity
\* the answer is 400 "Opportunity is closed", and nothing changes either.
C16_AlreadyApplied ==
    [][\A u \in WebhookUsers, o \in RequestOpps, resume \in Optional({"cv2"}),
          rec \in Optional(RecFiles), cover \in Optional(CoverLetters) :
          CreateRequest(u, o, resume, rec, cover) /\ Past(apps, u, o) # {} =>
             IF ~Opportunity(o).isActive
             THEN /\ res' = Request("POST /", u, <<o>>) \o <<"400", "Opportunity is closed">>
                  /\ NoEffect
             ELSE Past(apps, u, o) = Of(apps, u, o) =>
                  /\ res' = Request("POST /", u, <<o>>) \o AlreadyApplied
                  /\ NoEffect]_vars

\* C16 witness: the second request of a user whose application has been
\* accepted is turned down
C16_Witness ==
    /\ res = Request("POST /", "u1", <<"o2">>) \o AlreadyApplied
    /\ \E id \in Of(apps, "u1", "o2") : apps[id].status = "accepted"

\* the store without application id, the others as they were
Without(store, id) == [i \in DOMAIN store \ {id} |-> store[i]]

\* C17: a withdraw request of the owner deletes the application if its
\* status is pending_payment or submitted, and only then; in any other
\* status it is answered 400 "Application cannot be withdrawn" and the
\* record stays as it is.
C17_WithdrawOnlyBeforeReview ==
    [][\A u \in WebhookUsers, id \in DOMAIN apps :
          DeleteRequest(u, id) /\ apps[id].userId = u =>
             IF apps[id].status \in {"pending_payment", "submitted"}
             THEN /\ apps' = Without(apps, id)
                  /\ res' = Request("DELETE /:id", u, id)
                               \o <<"delete", "200", "Application withdrawn">>
             ELSE /\ apps' = apps
                  /\ res' = Request("DELETE /:id", u, id)
                               \o <<"400", "Application cannot be withdrawn">>]_vars

\* C17 witness: the owner's request to withdraw an application under
\* review has been turned down, and the application is still there
C17_Witness ==
    \E id \in DOMAIN apps :
       /\ apps[id].status = "under_review"
       /\ res = Request("DELETE /:id", apps[id].userId, id)
                   \o <<"400", "Application cannot be withdrawn">>

NotFound == <<"404", "Application not found">>

\* the applications of others than user u
Foreign(store, u) == {id \in DOMAIN store : store[id].userId # u}

----------------------------------------------------------------------------
(* Properties of the M-Pesa callback *)

\* an STK push has gone out for application id
Pushed(id) == \E p \in BagToSet(initiated) : p.id = id

\* C19: a callback reporting failure for the pending_payment application
\* that holds its CheckoutRequestID leaves the application in
\* pending_payment, clears mpesaCheckoutRequestId, and writes neither
\* mpesaTransactionId nor amountPaid; no other application changes.
C19_FailureClearsToken ==
    [][\A cb \in Callbacks : \A id \in FindByCheckout(apps, cb.CheckoutRequestID) :
          /\ cb.ResultCode # 0
          /\ apps[id].status = "pending_payment"
          /\ MpesaCallback(cb)
          => apps' = [apps EXCEPT ![id].mpesaCheckoutRequestId = None]]_vars

\* C19 witness: an application for which a push went out is in
\* pending_payment without token and without payment fields, which only
\* a failure callback leaves
C19_Witness ==
    \E id \in DOMAIN apps :
       /\ Pushed(id)
       /\ apps[id].status = "pending_payment"
       /\ apps[id].mpesaCheckoutRequestId = None
       /\ apps[id].mpesaTransactionId = None
       /\ apps[id].amountPaid = None

\* C20: after a successful callback has been handled, no application
\* holds its CheckoutRequestID, so the same callback delivered again finds
\* nothing and returns without a write.
C20_SecondDeliveryFindsNothing ==
    [][\A cb \in Callbacks :
          cb.ResultCode = 0 /\ MpesaCallback(cb) =>
             /\ FindByCheckout(apps', cb.CheckoutRequestID) = {}
             /\ \A id \in FindByCheckout(apps, cb.CheckoutRequestID) :
                   apps'[id].status = "submitted"]_vars

\* C20 witness: an application for which a push went out has been
\* submitted by a callback, and its token is gone
C20_Witness ==
    \E id \in DOMAIN apps :
       /\ Pushed(id)
       /\ apps[id].status = "submitted"
       /\ apps[id].mpesaCheckoutRequestId = None

\* the CheckoutRequestIDs issued for application id
IssuedFor(id) == {p.CheckoutRequestID : p \in {q \in BagToSet(initiated) : q.id = id}}

\* the CheckoutRequestIDs issued for application id that /:id/pay has
\* overwritten since
Overwritten(store, id) ==
    {c \in IssuedFor(id) : store[id].mpesaCheckoutRequestId \notin {None, Some(c)}}

\* C21: a callback, success or failure, that carries a CheckoutRequestID
\* which /:id/pay has overwritten finds no application: the handler
\* acknowledges, looks up, and returns; no application changes, so the
\* status and the token of the application are as before.
C21_SupersededCallbackIgnored ==
    [][\A cb \in Callbacks : \A id \in DOMAIN apps :
          /\ cb.CheckoutRequestID \in Overwritten(apps, id)
          /\ (CallbackSaved(cb) \/ CallbackIgnored(cb))
          => /\ res' = CallbackSteps(cb, FALSE)
             /\ apps' = apps]_vars

\* C21 witness: the callback of the first push for an application has
\* been received and found nothing, the application holding the token of
\* its second push
C21_Witness ==
    \E id \in DOMAIN apps :
       /\ CheckoutRequestID(1) \in Overwritten(apps, id)
       /\ apps[id].status = "pending_payment"
       /\ \E cb \in ObservedCallbacks :
             cb.CheckoutRequestID = CheckoutRequestID(1) /\ res = CallbackSteps(cb, FALSE)

\* C22: an application holds a CheckoutRequestID only while its status is
\* pending_payment.
C22_TokenOnlyWhilePending ==
    \A id \in DOMAIN apps :
       apps[id].mpesaCheckoutRequestId # None => apps[id].status = "pending_payment"

----------------------------------------------------------------------------
(* Properties of the administrator's status edit *)

\* C23: an administrator's status edit changes the status of the targeted
\* application and nothing else: every other field of that application
\* (payment fields, token, URLs, cover letter) and every field of every
\* other application are as before, and no application appears or
\* disappears.
C23_AdminEditsStatusOnly ==
    [][\A id \in AppIds, status \in Statuses :
          AdminStatus(id, status) =>
             /\ DOMAIN apps' = DOMAIN apps
             /\ \A i \in DOMAIN apps : \A k \in DOMAIN apps[i] :
                   apps'[i][k] = IF i = id /\ k = "status" THEN status ELSE apps[i][k]]_vars

\* C23 witness: a paid application that an administrator has shortlisted
\* still carries its transaction id and amount
C23_Witness ==
    \E id \in DOMAIN apps :
       /\ apps[id].status = "shortlisted"
       /\ apps[id].paymentTransactionId # None
       /\ apps[id].amountPaid # None

----------------------------------------------------------------------------
(* Progress of the webhook handler *)

\* the application of delivery d carries what the delivery reports
RecordedIn(d) ==
    /\ RecoverId(d.reference) \in DOMAIN apps
    /\ Recorded(apps[RecoverId(d.reference)], d)

\* the handler of delivery d has found its application in pending_payment
\* and waits for save()
Saving(d) ==
    SaveFrame("webhook", RecoverId(d.reference), WebhookMods(d), "done", <<>>) \in Frames

\* C24: every charge.success delivery whose handler found the application
\* in pending_payment leads to a state in which the application is
\* submitted with the delivery's transaction id (the reference when it has
\* none) and its amount divided by 100, unless the application is withdrawn
\* meanwhile.
C24_DeliveryEventuallyRecorded ==
    \A d \in RaceDeliveries :
       Saving(d) ~> (RecordedIn(d)
                     \/ RecoverId(d.reference) \notin DOMAIN apps)

\* C24 witness: an application is submitted with a reference as its
\* transaction id and the amount of the delivery, while another delivery
\* for it is still waiting for its save()
C24_Witness ==
    \E d \in RaceDeliveries :
       /\ d.id = None /\ d.amount # None
       /\ RecordedIn(d)
       /\ inflight # EmptyBag

----------------------------------------------------------------------------
(* Properties of a failed payment initiation *)

\* the fields of a document that record the state of its payment
PaymentState(doc) ==
    <<doc.status, doc.paymentTransactionId, doc.amountPaid,
      doc.mpesaCheckoutRequestId, doc.mpesaTransactionId>>

\* the request recorded in r got as far as the provider call, which threw
InitiationFailed(r) ==
    /\ \E i \in 1..Len(r) : r[i] = "initiate"
    /\ r[Len(r)] \in {"400", "500"}

\* C25: a create, /:id/pay or /:id/charge-mpesa request whose provider
\* call throws leaves the payment state of every application as it was
\* before the call (an application the request has just created is in
\* pending_payment with no token, transaction id or amount), records no
\* initiation, and leaves the user with a pending_payment application for
\* which /:id/pay is accepted.
C25_FailedInitiationCommitsNothing ==
    [][InitiationFailed(res') =>
          /\ initiated' = initiated
          /\ \A id \in DOMAIN apps' :
                PaymentState(apps'[id]) =
                   IF id \in DOMAIN apps THEN PaymentState(apps[id])
                   ELSE <<"pending_payment", None, None, None, None>>
          /\ \E id \in DOMAIN apps' :
                /\ FindPending(apps', res'[3], id) # {}
                /\ PayRejection(apps', "pay", res'[3], id, <<>>) = <<>>
                /\ res'[2] \in {"POST /:id/pay", "POST /:id/charge-mpesa"}
                      => id = SubSeq(res', 4, 3 + Len(id))]_vars

\* C25 witness: the direct M-Pesa create request has been answered 500
\* after a failed STK push, and the application it created is there
C25_Witness ==
    /\ InitiationFailed(res)
    /\ res[2] = "POST / (M-Pesa)"
    /\ \E id \in DOMAIN apps :
          /\ apps[id].userId = res[3]
          /\ PaymentState(apps[id]) = <<"pending_payment", None, None, None, None>>

----------------------------------------------------------------------------
(* The reference, from getPaymentLink to the webhook handler, for _ids of  *)
(* several shapes                                                          *)

MaxIdLen == 3

\* the characters of an _id: hexadecimal digits, of which some
IdChars == {"a", "f", "0", "7"}

\* the dash-free identifiers of up to MaxIdLen characters
DashFreeIds == UNION {[1..n -> IdChars] : n \in 1..MaxIdLen}

\* values of Date.now() of one, two and three digits
Stamps == {0, 7, 10, 120}

\* a pending application of user u1 under a drawn _id, alone or beside a
\* pending application of user u2
ReferenceStores ==
    {(id :> DocIn("u1", "pending_payment")) : id \in DashFreeIds}
    \cup {(id :> DocIn("u1", "pending_payment")) @@ (other :> DocIn("u2", "pending_payment")) :
             id \in DashFreeIds, other \in {<<"7">>, <<"a", "7">>}}

InitReference ==
    /\ apps \in ReferenceStores
    /\ nextId = Len(IdOrder) + 1
    /\ inflight = EmptyBag
    /\ now \in Stamps
    /\ initiated = EmptyBag
    /\ nextCheckout = 0
    /\ res = <<>>
    /\ cachedToken = None
    /\ tokenExpiry = 0

NextReference ==
    \/ \E u \in WebhookUsers : \E id \in DOMAIN apps : Pay(u, id)
    \/ \E c \in BagToSet(initiated) : Webhook(Confirmation(c))
    \/ \E id \in DOMAIN apps :
          Webhook(Delivery(TRUE, "charge.success", TRUE, BareReference(id), None, None))

SpecReference == InitReference /\ [][NextReference]_vars

\* C26: the id recovered from APP-<id> and from APP-<id>-<digits> is the
\* id the reference was built from, for every application and every
\* charge initiated; a delivery echoing either reference changes no
\* application but the originating one, and submits that one when it is
\* in pending_payment.
C26_ReferenceRoundTrips ==
    /\ \A id \in DOMAIN apps : RecoverId(BareReference(id)) = id
    /\ \A c \in BagToSet(initiated) :
          /\ RecoverId(c.reference) = c.id
          /\ LET after == paystackWebhookHandler(apps, Confirmation(c)) IN
             /\ DOMAIN after = DOMAIN apps
             /\ \A id \in DOMAIN apps : id # c.id => after[id] = apps[id]
             /\ apps[c.id].status = "pending_payment" => after[c.id].status = "submitted"

\* C26 witness: an application with an all-digit _id has been submitted
\* under the reference of a charge with a three-digit timestamp, the
\* other application still waiting
C26_Witness ==
    \E c \in BagToSet(initiated) :
       /\ c.id = <<"0", "7", "7">>
       /\ c.reference = BuildReference(c.id, 120)
       /\ apps[c.id].status = "submitted"
       /\ apps[c.id].paymentTransactionId = Some(c.reference)
       /\ \E id \in DOMAIN apps : id # c.id /\ apps[id].status = "pending_payment"

----------------------------------------------------------------------------
(* chargeMpesa on the spellings of a subscriber number *)

\* subscriber numbers: two of full length, and shorter ones
Subscribers ==
    {<<"7", "1", "2", "3", "4", "5", "6", "7", "8">>,
     <<"1", "1", "0", "0", "0", "2", "5", "4", "0">>,
     <<"7", "1", "2", "3", "4", "5", "6", "7">>,
     <<"7", "1", "2">>}

\* local with leading 0, bare national, international, international
\* with plus
Spellings(s) == {<<"0">> \o s, s, K254 \o s, <<"+">> \o K254 \o s}

\* p with a space after its first k characters
Spaced(p, k) == SubSeq(p, 1, k) \o <<" ">> \o SubSeq(p, k + 1, Len(p))

\* the spellings of s, plain, with one space anywhere, and with two
SpacedSpellings(s) ==
    UNION {{p} \cup {Spaced(p, k) : k \in 0..Len(p)} \cup {Spaced(Spaced(p, 1), Len(p))} :
              p \in Spellings(s)}

PhoneInputs == UNION {SpacedSpellings(s) : s \in Subscribers}

\* what chargeMpesa does with a phone: the request it sends and how the
\* route answers, or the error it throws before sending anything
ChargeSteps(phone, ok) ==
    IF PhoneAccepted(phone)
    THEN <<"fetch">> \o PhoneFormatted(phone) \o (IF ok THEN <<"200">> ELSE <<"400">>)
    ELSE <<"throw", "Invalid phone number", "400">>

\* a charge-mpesa request with the phone of its body
ChargeRequested(u, id, phone) ==
    Request(PayRoute("charge"), u, id) \o <<"phone">> \o phone \o <<"|">>

\* POST /:id/charge-mpesa, the phone sent to the provider recorded
ChargePhoneRequest(u, id, phone) ==
    LET rejection == PayRejection(apps, "charge", u, id, phone) IN
    IF rejection # <<>> THEN Answer(ChargeRequested(u, id, phone), rejection)
    ELSE \E ok \in BOOLEAN :
         /\ PayRun("charge", u, id, phone, ok)
         /\ res' = ChargeRequested(u, id, phone) \o ChargeSteps(phone, ok)

\* a pending application of user u1, alone or beside one of user u2
PhoneStores ==
    {store \in WebhookStores :
        /\ IdOrder[1] \in DOMAIN store
        /\ store[IdOrder[1]].userId = "u1"
        /\ store[IdOrder[1]].status = "pending_payment"}

InitPhone ==
    /\ apps \in PhoneStores
    /\ nextId = Len(IdOrder) + 1
    /\ inflight = EmptyBag
    /\ now = 0
    /\ initiated = EmptyBag
    /\ nextCheckout = 0
    /\ res = <<>>
    /\ cachedToken = None
    /\ tokenExpiry = 0

NextPhone ==
    \E phone \in PhoneInputs : Unserved /\ ChargePhoneRequest("u1", IdOrder[1], phone)

SpecPhone == InitPhone /\ [][NextPhone]_vars

\* the request served was charge-mpesa with this phone
Charged(phone) ==
    LET r == ChargeRequested("u1", IdOrder[1], phone) IN
    Len(res) > Len(r) /\ SubSeq(res, 1, Len(r)) = r

\* C27: for a subscriber number of nine digits, every spelling (leading 0,
\* bare, 254, +254, with or without spaces) makes chargeMpesa send
\* +254<subscriber>; for a shorter one, whose normalized form has fewer
\* than 12 characters, every spelling makes it throw 'Invalid phone
\* number' and nothing is sent.
C27_SpellingsNormalizeToPlus254 ==
    \A s \in Subscribers : \A phone \in SpacedSpellings(s) :
       Charged(phone) =>
          LET r == ChargeRequested("u1", IdOrder[1], phone) IN
          IF Len(s) = 9
          THEN /\ \E code \in {"200", "400"} :
                     res = r \o <<"fetch", "+">> \o K254 \o s \o <<code>>
               /\ res[Len(res)] = "200" <=> initiated # EmptyBag
          ELSE /\ res = r \o <<"throw", "Invalid phone number", "400">>
               /\ initiated = EmptyBag

\* C27 witness: a charge has gone out for the number spelled with leading
\* 0 and a space, under its canonical form
C27_Witness ==
    /\ initiated # EmptyBag
    /\ Charged(<<"0", "7", "1", "2", " ", "3", "4", "5", "6", "7", "8">>)
    /\ res[Len(res)] = "200"
    /\ SubSeq(res, Len(res) - 13, Len(res) - 1)
          = <<"+", "2", "5", "4", "7", "1", "2", "3", "4", "5", "6", "7", "8">>

----------------------------------------------------------------------------
(* initiateSTKPush on the spellings of a subscriber number *)

\* phone.startsWith('254') ? phone : `254${phone.replace(/^0/, '')}`
formattedPhone(phone) ==
    IF StartsWith(phone, K254) THEN phone
    ELSE K254 \o (IF StartsWith(phone, <<"0">>) THEN Tail(phone) ELSE phone)

\* the two fields of the request body that carry the phone
StkBody(phone) ==
    [PartyA |-> formattedPhone(phone), PhoneNumber |-> formattedPhone(phone)]

\* what initiateSTKPush does with a phone and how /:id/pay answers: the
\* token request failed and nothing more is sent, or the push is sent and
\* Daraja refuses or accepts it
StkOutcomes == {"auth failed", "refused", "accepted"}

StkPushSteps(phone, outcome) ==
    IF outcome = "auth failed" THEN <<"throw", "M-Pesa auth failed", "500">>
    ELSE <<"fetch", "PartyA">> \o StkBody(phone).PartyA
         \o <<"PhoneNumber">> \o StkBody(phone).PhoneNumber
         \o <<IF outcome = "accepted" THEN "200" ELSE "500">>

\* a pay request of routes/applications.js with the phoneNumber of its body
StkRequested(u, id, phone) ==
    Request("POST /:id/pay (M-Pesa)", u, id) \o <<"phoneNumber">> \o phone \o <<"|">>

\* POST /:id/pay of routes/applications.js for a pending application of
\* the user, the phone sent to Daraja recorded
StkPhoneRequest(u, id, phone) ==
    \E outcome \in StkOutcomes :
       /\ phone # <<>>
       /\ FindPending(apps, u, id) # {}
       /\ outcome = "auth failed" => ~CacheFresh
       /\ CASE outcome = "accepted" -> MpesaPayRun(u, id, phone, TRUE)
            [] outcome = "refused" ->
                 /\ \E data \in RouteGrants(now) : getAccessToken(data)
                 /\ UNCHANGED <<apps, nextId, inflight, now, initiated, nextCheckout>>
            [] outcome = "auth failed" ->
                 UNCHANGED <<apps, nextId, inflight, now, initiated, nextCheckout,
                             cachedToken, tokenExpiry>>
       /\ res' = StkRequested(u, id, phone) \o StkPushSteps(phone, outcome)

\* phoneNumber is passed on as the body has it
StkPhoneInputs == UNION {Spellings(s) : s \in Subscribers}

NextStkPhone ==
    \E phone \in StkPhoneInputs : Unserved /\ StkPhoneRequest("u1", IdOrder[1], phone)

SpecStkPhone == InitPhone /\ [][NextStkPhone]_vars

\* the request served was the pay request with this phoneNumber, and the
\* push was sent
StkSent(phone) ==
    LET r == StkRequested("u1", IdOrder[1], phone) \o <<"fetch">> IN
    Len(res) > Len(r) /\ SubSeq(res, 1, Len(r)) = r

\* C28: every spelling of a subscriber number (leading 0, bare, +254,
\* 254) reaches Daraja as 254<subscriber>, in PartyA and in PhoneNumber.
C28_SpellingsNormalizeTo254 ==
    \A s \in Subscribers : \A phone \in Spellings(s) :
       StkSent(phone) =>
          \E code \in {"200", "500"} :
             res = StkRequested("u1", IdOrder[1], phone)
                   \o <<"fetch", "PartyA">> \o K254 \o s
                   \o <<"PhoneNumber">> \o K254 \o s \o <<code>>

----------------------------------------------------------------------------
(* getAccessToken called by overlapping requests while time passes *)

\* the calls suspended on their token request at one time
MaxCalls == 3
\* the seconds the clock runs
MaxSeconds == 3

TokenNames == {"t1", "t2"}
\* expires_in as Daraja may answer it: the margin exactly, and one and two
\* seconds more
ExpiresIn == {60, 61, 62}
Grants(at) == {Grant(name, e, at) : name \in TokenNames, e \in ExpiresIn}

\* the token requests awaited
TokenRequests == BagCardinality(inflight)

\* when a call ended
At(t) == <<"at">> \o ToDigits(t)

\* getAccessToken is called and returns the cached token
TokenCached ==
    /\ CacheFresh
    /\ res' = <<"cached", TheValue(cachedToken).name>> \o At(now)
    /\ UNCHANGED <<apps, nextId, inflight, now, initiated, nextCheckout,
                   cachedToken, tokenExpiry>>

\* getAccessToken is called and sends the token request
TokenRequested ==
    /\ ~CacheFresh
    /\ TokenRequests < MaxCalls
    /\ Suspend(TokenFrame("getAccessToken", <<>>, <<>>))
    /\ UNCHANGED <<apps, nextId, now, initiated, nextCheckout, res,
                   cachedToken, tokenExpiry>>

\* a token request is answered: with a token (ok), stored and returned,
\* or with an error, thrown
TokenAnswered(f, ok) ==
    /\ f \in Frames /\ f.op = "token" /\ f.by = "getAccessToken"
    /\ IF ok
       THEN \E data \in Grants(now) :
               /\ TokenStored(data)
               /\ res' = <<"fetched", data.access_token.name>> \o At(now)
       ELSE /\ UNCHANGED <<cachedToken, tokenExpiry>>
            /\ res' = <<"throw", "M-Pesa auth failed">> \o At(now)
    /\ inflight' = Resume(f)
    /\ UNCHANGED <<apps, nextId, now, initiated, nextCheckout>>

\* a second passes
Elapse ==
    /\ now < MaxSeconds * 1000
    /\ now' = now + 1000
    /\ UNCHANGED <<apps, nextId, inflight, initiated, nextCheckout, res,
                   cachedToken, tokenExpiry>>

NextToken ==
    \/ TokenCached
    \/ TokenRequested
    \/ \E f \in Frames, ok \in BOOLEAN : TokenAnswered(f, ok)
    \/ Elapse

SpecToken == Init /\ [][NextToken]_vars

\* the time the cached token has left before it lapses
Margin == TheValue(cachedToken).lapses - now

\* the step is a call that returns the cached token
ReturnsCached == TokenRequests' = TokenRequests /\ now' = now /\ res'[1] = "cached"
\* the step sends a token request
SendsRequest == TokenRequests' > TokenRequests
\* the step is the end of a token request, with a token or an error
EndsRequest(how) == TokenRequests' < TokenRequests /\ res'[1] = how

\* C29: a token request is sent only when no token is cached or the clock
\* has reached tokenExpiry; a request answered with a token stores it with
\* tokenExpiry = time of the answer + (expires_in - 60) seconds; a cached
\* token is returned only with more than 60 seconds left; a request
\* answered with an error leaves cachedToken and tokenExpiry as they were.
C29_TokenFetchedOnlyWhenStale ==
    [][/\ SendsRequest => (cachedToken = None \/ now >= tokenExpiry)
       /\ EndsRequest("fetched") =>
             \E data \in Grants(now) :
                /\ cachedToken' = Some(data.access_token)
                /\ tokenExpiry' = now + (data.expires_in - 60) * 1000
       /\ ReturnsCached =>
             /\ Margin > 60 * 1000
             /\ res' = <<"cached", TheValue(cachedToken).name>> \o At(now)
       /\ EndsRequest("throw") => UNCHANGED <<cachedToken, tokenExpiry>>]_vars

\* C29 witness: the token t1, stored at time 0 with expires_in 62, is
\* returned from the cache a second later, a second before tokenExpiry
C29_Witness ==
    /\ res = <<"cached", "t1">> \o At(1000)
    /\ cachedToken = Some(Grant("t1", 62, 0).access_token)
    /\ tokenExpiry = 2000

\* C30: while no token has been stored yet, at most two token requests are
\* awaited at one time: the one needed and one more.
C30_AtMostOneRedundantFetch ==
    cachedToken = None => TokenRequests <= 2

\* whatever the order in which the requests are answered, the token kept
\* and tokenExpiry were assigned from one answer
TokenAndExpiryOfOneFetch ==
    cachedToken # None => tokenExpiry = TheValue(cachedToken).lapses - 60 * 1000

----------------------------------------------------------------------------
(* chargeMpesa on the answers of the provider *)

\* a || b on strings: undefined and '' give b
OrElse(a, b) == IF a = None \/ a = Some("") THEN b ELSE TheValue(a)

\* const d = data.data || {}
NoData ==
    [status |-> None, reference |-> None, display_text |-> None,
     gateway_response |-> None, message |-> None]
DataOf(data) == IF data.data = None THEN NoData ELSE TheValue(data.data)

DefaultDisplayText == "Please complete authorization on your mobile phone"
RetryInstruction ==
    "M-Pesa request could not be completed. Please try Card/Bank or check your phone number (use 2547XXXXXXXX)."

\* the message of a refused charge passed on as the provider worded it
FailureMessageRaw(raw) == OrElse(raw, "M-Pesa charge failed")

\* raw === 'Charge attempted' ? <retry instruction> : raw || 'M-Pesa charge failed'
FailureMessage(raw) ==
    IF OrElse(raw, "") = "Charge attempted" THEN RetryInstruction
    ELSE OrElse(raw, "M-Pesa charge failed")

\* { reference, status, display_text }; reference: that of the request
ChargeResult(d, reference, status) ==
    [throws |-> FALSE,
     reference |-> IF d.reference = None \/ d.reference = Some(<<>>) THEN reference
                   ELSE TheValue(d.reference),
     status |-> status,
     display_text |-> OrElse(d.display_text, DefaultDisplayText)]

Thrown(message) == [throws |-> TRUE, message |-> message]

\* chargeMpesa from the answer on
ChargeOutcome(data, reference) ==
    LET d == DataOf(data) IN
    IF data.status /\ d.status \in {Some("pay_offline"), Some("pending")}
    THEN ChargeResult(d, reference, TheValue(d.status))
    ELSE IF ~data.status THEN Thrown(FailureMessage(data.message))
    ELSE IF d.status = Some("failed")
    THEN Thrown(OrElse(d.gateway_response,
                       OrElse(d.message, "Payment could not be processed")))
    ELSE ChargeResult(d, reference, OrElse(d.status, "pay_offline"))

\* the answers tried
ChargeData ==
    [status : Optional({"pay_offline", "pending", "failed", "send_otp"}),
     reference : Optional({<<"P", "1">>}),
     display_text : Optional({"Enter your PIN"}),
     gateway_response : Optional({"Declined"}),
     message : Optional({"Insufficient funds"})]
ChargeAnswers ==
    [status : BOOLEAN,
     message : Optional({"Charge attempted", "Invalid key", ""}),
     data : Optional(ChargeData)]

\* an answer as res records it
Shown(a) == IF a = None THEN "undefined" ELSE TheValue(a)
AnswerShown(data) ==
    LET d == DataOf(data) IN
    <<"answer", IF data.status THEN "true" ELSE "false", Shown(data.message),
      IF data.data = None THEN "undefined" ELSE "data",
      Shown(d.status)>>
    \o (IF d.reference = None THEN <<"undefined">> ELSE TheValue(d.reference))
    \o <<Shown(d.display_text), Shown(d.gateway_response), Shown(d.message), "|">>

\* how /:id/charge-mpesa answers: res.json of the result, or 400 with
\* err.message
ChargeResponse(outcome) ==
    IF outcome.throws THEN <<"400", outcome.message>>
    ELSE <<"200">> \o outcome.reference \o <<outcome.status, outcome.display_text>>

\* POST /:id/charge-mpesa with an accepted phone, the provider answering data
ChargeAnsweredRequest(u, id, phone, data) ==
    LET outcome == ChargeOutcome(data, AttemptReference(id, now)) IN
    /\ PayRejection(apps, "charge", u, id, phone) = <<>>
    /\ PhoneAccepted(phone)
    /\ PayRun("charge", u, id, phone, ~outcome.throws)
    /\ res' = ChargeRequested(u, id, phone) \o AnswerShown(data) \o ChargeResponse(outcome)

ChargePhone == <<"0", "7", "1", "2", "3", "4", "5", "6", "7", "8">>

NextCharge ==
    \E data \in ChargeAnswers :
       Unserved /\ ChargeAnsweredRequest("u1", IdOrder[1], ChargePhone, data)

SpecCharge == InitPhone /\ [][NextCharge]_vars

\* the request served was the charge answered with data
Answered(data) ==
    LET r == ChargeRequested("u1", IdOrder[1], ChargePhone) \o AnswerShown(data) IN
    Len(res) > Len(r) /\ SubSeq(res, 1, Len(r)) = r

\* what the route sent after the answer
Response(data) ==
    SubSeq(res, Len(ChargeRequested("u1", IdOrder[1], ChargePhone) \o AnswerShown(data)) + 1,
           Len(res))

\* C31: an answer with status true and data status pay_offline or pending
\* makes the route answer 200 with reference, that status and a display
\* text, and the charge counts as started; an answer with status false or
\* data status failed makes it answer 400 and no charge counts; an answer
\* with status false and message 'Charge attempted' is answered with the
\* retry instruction.
C31_PendingReturnedFailureThrown ==
    \A data \in ChargeAnswers :
       Answered(data) =>
          LET d == DataOf(data)
              r == Response(data)
          IN
          /\ (data.status /\ d.status \in {Some("pay_offline"), Some("pending")}) =>
                /\ r[1] = "200"
                /\ r[Len(r) - 1] = TheValue(d.status)
                /\ r[Len(r)] \in {"Enter your PIN", DefaultDisplayText}
                /\ SubSeq(r, 2, Len(r) - 2)
                      \in {<<"P", "1">>, AttemptReference(IdOrder[1], now)}
                /\ initiated # EmptyBag
          /\ (~data.status \/ d.status = Some("failed")) =>
                /\ Len(r) = 2 /\ r[1] = "400"
                /\ initiated = EmptyBag
          /\ (~data.status /\ data.message = Some("Charge attempted")) =>
                r = <<"400", RetryInstruction>>

\* C31 witness: the provider answered false with 'Charge attempted' and
\* the route sent the retry instruction
C31_Witness ==
    /\ \E data \in ChargeAnswers :
          Answered(data) /\ ~data.status /\ data.message = Some("Charge attempted")
    /\ res[Len(res)] = RetryInstruction

----------------------------------------------------------------------------
(* Properties of the cover-letter edit *)

\* C32: a cover-letter edit of the owner is accepted while the application
\* is in pending_payment; in submitted or any later status it is answered
\* 400 "Application can no longer be updated" and the record, its cover
\* letter included, stays as it is.
C32_EditOnlyWhilePending ==
    [][\A u \in WebhookUsers, id \in DOMAIN apps,
          cover \in Optional(CoverLetters \cup {<<>>}) :
          PatchRequest(u, id, cover) /\ apps[id].userId = u =>
             IF apps[id].status = "pending_payment"
             THEN res' = Request("PATCH /:id", u, id) \o <<"save", "200">>
             ELSE /\ apps' = apps
                  /\ res' = Request("PATCH /:id", u, id)
                               \o <<"400", "Application can no longer be updated">>]_vars

----------------------------------------------------------------------------
(* Properties of overlapping requests *)

\* the charge requests that reach the provider in the step
Started == {c \in BagToSet(initiated') : CopiesIn(c, initiated') > CopiesIn(c, initiated)}

\* C33: whenever a charge request reaches the provider, the application it
\* is for is stored, at that moment, with status pending_payment.
C33_InitiatedOnlyWhilePending ==
    [][\A c \in Started :
          c.id \in DOMAIN apps' /\ apps'[c.id].status = "pending_payment"]_vars

\* the applications the step deletes
Deleted == DOMAIN apps \ DOMAIN apps'

\* C34: an application is deleted only while it is stored with status
\* pending_payment or submitted, never as under_review, shortlisted,
\* rejected or accepted.
C34_DeletedOnlyBeforeReview ==
    [][\A id \in Deleted : apps[id].status \in {"pending_payment", "submitted"}]_vars

====
